---------------------------- MODULE Spec2Model ----------------------------
(***************************************************************************)
(* Model of platformatic/undici-cache-memory.                              *)
(*                                                                         *)
(* The repository holds two stores, both called MemoryCacheStore:          *)
(*   - src/index.js: get / createWriteStream / delete / deleteRoutes /     *)
(*     deleteByCacheTags over origin -> path -> method -> entry list;      *)
(*   - src/unnamed/part_000: the lock-based stream store                   *)
(*     (createReadStream / createWriteStream with readLock / writeLock).   *)
(* The definitions of the lock-based store carry the prefix LS_.           *)
(*                                                                         *)
(* Strings whose characters the code inspects (paths, methods, header      *)
(* names and values, cache keys) are sequences of one-character strings.   *)
(* An optional JavaScript value is <<>> (undefined) or <<x>>.              *)
(***************************************************************************)
EXTENDS Integers, Sequences, FiniteSets, TLC

\* ------------------------------------------------------------------ bounds

\* Value objects of the lock-based store alive at once: held by a list or by
\* an open stream.
MaxValues == 2

\* Streams of the lock-based store open at once, write and read together.
MaxOpen == 2

\* ------------------------------------------------------------- JS helpers

\* JavaScript's Infinity, the default of every limit: larger than every
\* count and size a run can produce.
Infinity == 1000000000

Undefined == <<>>

Some(x) == <<x>>

IsDefined(o) == o # <<>>

\* Map.get on a map held as a function whose DOMAIN is the set of keys.
MapGet(m, k) == IF k \in DOMAIN m THEN <<m[k]>> ELSE <<>>

MapSet(m, k, v) == [x \in (DOMAIN m) \cup {k} |-> IF x = k THEN v ELSE m[x]]

MapDelete(m, k) == [x \in (DOMAIN m) \ {k} |-> m[x]]

EmptyMap == <<>>

\* String.prototype.toLowerCase on one character.
LowerChar(c) ==
    CASE c = "T" -> "t"
      [] c = "X" -> "x"
      [] OTHER -> c

toLowerCase(s) == [i \in 1..Len(s) |-> LowerChar(s[i])]

\* String.prototype.split(sep): the segments between the separators.
RECURSIVE SplitFrom(_, _, _, _)
SplitFrom(s, sep, i, cur) ==
    IF i > Len(s) THEN <<cur>>
    ELSE IF s[i] = sep THEN <<cur>> \o SplitFrom(s, sep, i + 1, <<>>)
    ELSE SplitFrom(s, sep, i + 1, Append(cur, s[i]))

split(s, sep) == SplitFrom(s, sep, 1, <<>>)

\* The template literal `${path}:${method}`.
CacheKeyOf(path, method) == path \o <<":">> \o method

SeqToSet(s) == {s[i] : i \in 1..Len(s)}

\* ------------------------------------------------------------ input sets

\* A body chunk: a Buffer, or a string still to be encoded, with the content
\* it carries (id) and the number of bytes it encodes to.
Chunk(id, n, isString) == [id |-> id, byteLength |-> n, string |-> isString]

\* Buffer.from(chunk, encoding) for a string chunk: the same content as bytes.
toBuffer(chunk) == IF chunk.string THEN [chunk EXCEPT !.string = FALSE] ELSE chunk

byteLength(chunk) == chunk.byteLength

\* The null a read stream pushes to end the stream.
EndOfStream == [id |-> 0, byteLength |-> 0, string |-> FALSE]

Chunks == {Chunk(1, 1, FALSE), Chunk(2, 2, TRUE)}


\* Response metadata handed to createWriteStream of the lock-based store. The
\* caller computes the timestamps; cacheTags and rawTrailers are set later.
LS_Opts(statusCode, rawHeaders, vary, cachedAt, deleteAt) ==
    [statusCode |-> statusCode, rawHeaders |-> rawHeaders, vary |-> vary,
     cachedAt |-> cachedAt, staleAt |-> cachedAt + 1, deleteAt |-> deleteAt,
     cacheTags |-> Undefined, rawTrailers |-> Undefined]

Req(origin, path, method, headers) ==
    [origin |-> origin, path |-> path, method |-> method, headers |-> headers]

\* ------------------------------------------------------------------ state

VARIABLES
    now,        \* Date.now()
    lsCfg,      \* lock-based store: #maxEntries, #maxEntrySize, #cacheTagsHeader
    entryCount, \* lock-based store: #entryCount
    data,       \* lock-based store: #data, origin -> cache key -> list of values
    lsTags,     \* lock-based store: #tags, origin -> tag -> set of cache keys
    heap,       \* the value objects, by identity; lists and streams refer to them
    writers,    \* the open MemoryStoreWritableStream objects, oldest first
    readers,    \* the open MemoryStoreReadableStream objects, oldest first
    hung,       \* a call of the lock-based store never returned
    asked,      \* history: the opts each open write stream was created with
    cfg,        \* index.js: #maxCount, #maxSize, #maxEntrySize, #cacheTagsHeader
    size,       \* index.js: #size
    count,      \* index.js: #count
    entries,    \* index.js: #entries, origin -> path -> method -> list of entries
    tags,       \* index.js: #tags, origin -> tag -> set of cache keys
    streams     \* index.js: the open Writable streams, oldest first

lsVars == <<lsCfg, entryCount, data, lsTags, heap, writers, readers, hung>>

ixVars == <<cfg, size, count, entries, tags, streams>>

\* ------------------------------------------- lock-based store: operations

\* A store that is never full.
LS_isFull_never(n) == FALSE

\* get isFull
LS_isFull(n) == n >= lsCfg.maxEntries

\* #parseCacheTags: the first header whose lower-cased name is the configured
\* one, split on commas.
RECURSIVE ParseTagsFrom(_, _, _)
ParseTagsFrom(header, rawHeaders, i) ==
    IF i > Len(rawHeaders) THEN <<>>
    ELSE IF toLowerCase(rawHeaders[i]) # header
         THEN ParseTagsFrom(header, rawHeaders, i + 2)
         ELSE split(rawHeaders[i + 1], ",")

LS_parseCacheTags(rawHeaders) ==
    IF ~IsDefined(lsCfg.cacheTagsHeader) THEN <<>>
    ELSE ParseTagsFrom(lsCfg.cacheTagsHeader[1], rawHeaders, 1)

\* #saveCacheTags, on the tag index t.
LS_saveCacheTags(t, req, cacheTags) ==
    IF Len(cacheTags) = 0 THEN t
    ELSE LET originTags == IF req.origin \in DOMAIN t THEN t[req.origin] ELSE EmptyMap
             key == CacheKeyOf(req.path, req.method)
             added == [tag \in (DOMAIN originTags) \cup SeqToSet(cacheTags) |->
                         IF tag \in SeqToSet(cacheTags)
                         THEN (IF tag \in DOMAIN originTags THEN originTags[tag] ELSE {})
                              \cup {key}
                         ELSE originTags[tag]]
         IN MapSet(t, req.origin, added)

\* #unlinkRouteFromCacheTag, on the tag index t.
LS_unlinkRouteFromCacheTag(t, origin, cacheTags, cacheKey) ==
    IF origin \notin DOMAIN t THEN t
    ELSE LET originTags == t[origin]
             hit == SeqToSet(cacheTags) \cap DOMAIN originTags
             kept == {tag \in DOMAIN originTags :
                        tag \notin hit \/ originTags[tag] \ {cacheKey} # {}}
         IN MapSet(t, origin,
                   [tag \in kept |-> IF tag \in hit THEN originTags[tag] \ {cacheKey}
                                     ELSE originTags[tag]])

\* #getValuesForRequest(req, true), on the index d: the origin's map and the
\* key's list are created when missing.
LS_makeValues(d, req) ==
    LET cachedPaths == IF req.origin \in DOMAIN d THEN d[req.origin] ELSE EmptyMap
        key == CacheKeyOf(req.path, req.method)
    IN MapSet(d, req.origin,
              IF key \in DOMAIN cachedPaths THEN cachedPaths
              ELSE MapSet(cachedPaths, key, <<>>))

\* #getValuesForRequest(req, false): the list, or undefined.
LS_getValues(d, req) ==
    IF req.origin \notin DOMAIN d THEN Undefined
    ELSE MapGet(d[req.origin], CacheKeyOf(req.path, req.method))

\* The vary test of #findValue for one value: "match", "nomatch", or "stop"
\* when the value varies and the request has no headers (the scan breaks).
LS_varyTest(req, o) ==
    IF ~IsDefined(o.vary) THEN "match"
    ELSE IF ~IsDefined(req.headers) THEN "stop"
    ELSE IF \A key \in DOMAIN o.vary[1] :
               Some(o.vary[1][key]) = MapGet(req.headers[1], key)
         THEN "match" ELSE "nomatch"

\* The scan of #findValue from the tail of the list (index i, 1-based):
\* found is the value's identity or 0; cut is the 1-based index of the first
\* expired value met (the list is truncated before it), or 0.
RECURSIVE LS_scan(_, _, _, _, _)
LS_scan(h, t, req, values, i) ==
    IF i = 0 THEN [found |-> 0, cut |-> 0]
    ELSE LET o == h[values[i]].opts
         IN IF t >= o.deleteAt THEN [found |-> 0, cut |-> i]
            ELSE LET m == LS_varyTest(req, o)
                 IN IF m = "stop" THEN [found |-> 0, cut |-> 0]
                    ELSE IF m = "match" THEN [found |-> values[i], cut |-> 0]
                    ELSE LS_scan(h, t, req, values, i - 1)

\* #findValue(req, values): the value found and the store after the sweep.
LS_findValue(h, t, n, d, tg, req) ==
    LET key == CacheKeyOf(req.path, req.method)
        values == d[req.origin][key]
        r == LS_scan(h, t, req, values, Len(values))
    IN IF r.cut = 0
       THEN [found |-> r.found, entryCount |-> n, data |-> d, tags |-> tg]
       ELSE [found |-> 0,
             entryCount |-> n - (Len(values) - (r.cut - 1)),
             data |-> [d EXCEPT ![req.origin][key] = SubSeq(values, 1, r.cut - 1)],
             tags |-> LET ct == h[values[r.cut]].opts.cacheTags
                      IN IF IsDefined(ct)
                         THEN LS_unlinkRouteFromCacheTag(tg, req.origin, ct[1], key)
                         ELSE tg]

\* The value createReadStream(req) and createWriteStream(req, ...) look up
\* now: #getValuesForRequest and #findValue, 0 when there is none.
LS_selected(req) ==
    IF ~IsDefined(LS_getValues(data, req)) THEN 0
    ELSE LS_findValue(heap, now, entryCount, data, lsTags, req).found

\* JavaScript's < and >= on optional numbers: false when a side is undefined.
JsLt(a, b) == IsDefined(a) /\ IsDefined(b) /\ a[1] < b[1]

JsGe(a, b) == IsDefined(a) /\ IsDefined(b) /\ a[1] >= b[1]

\* values[i].deleteAt in createWriteStream: a value object holds readers,
\* readLock, writeLock, opts and body, and no deleteAt of its own.
LS_valueDeleteAt(v) == Undefined

InsertAt(values, i, x) ==
    SubSeq(values, 1, i - 1) \o <<x>> \o SubSeq(values, i, Len(values))

\* The positional search of createWriteStream (0-based startIndex and
\* endIndex as in the code): the index to splice at, or -1 when the loop
\* repeats a state and never ends.
RECURSIVE LS_search(_, _, _, _, _)
LS_search(h, values, deleteAt, startIndex, endIndex) ==
    IF startIndex = endIndex THEN startIndex
    ELSE LET middleIndex == (startIndex + endIndex) \div 2
             middleValue == h[values[middleIndex + 1]]
         IN IF deleteAt = middleIndex THEN middleIndex
            ELSE IF deleteAt > middleValue.opts.deleteAt
                 THEN LS_search(h, values, deleteAt, startIndex, middleIndex)
                 ELSE IF middleIndex = startIndex THEN -1
                      ELSE LS_search(h, values, deleteAt, middleIndex, endIndex)

\* Where createWriteStream puts a new value v with metadata opts: the new
\* list, or <<>> wrapped as undefined when the search never ends.
LS_insert(h, values, v, opts) ==
    IF Len(values) = 0
       \/ JsLt(Some(opts.deleteAt), LS_valueDeleteAt(h[values[Len(values)]]))
    THEN Some(Append(values, v))
    ELSE IF JsGe(Some(opts.deleteAt), LS_valueDeleteAt(h[values[1]]))
    THEN Some(<<v>> \o values)
    ELSE LET at == LS_search(h, values, opts.deleteAt, 0, Len(values))
         IN IF at = -1 THEN Undefined ELSE Some(InsertAt(values, at + 1, v))

\* A slot of the heap that holds no value object.
LS_freeValue ==
    [free |-> TRUE, readers |-> 0, readLock |-> FALSE, writeLock |-> FALSE,
     opts |-> LS_Opts(0, <<>>, Undefined, 0, 0), body |-> <<>>, wrote |-> "none"]

\* The value object createWriteStream builds. wrote is not a field of the
\* code: it records how the last write stream on the value went ("open",
\* then "committed" or "oversized").
LS_newValue(opts) ==
    [free |-> FALSE, readers |-> 0, readLock |-> FALSE, writeLock |-> FALSE,
     opts |-> opts, body |-> <<>>, wrote |-> "none"]

\* The value objects the program can still reach: those in a list and those
\* an open stream holds. The others are garbage and leave the heap.
LS_live(d, ws, rs) ==
    UNION {UNION {SeqToSet(d[o][k]) : k \in DOMAIN d[o]} : o \in DOMAIN d}
      \cup {ws[i].value : i \in 1..Len(ws)}
      \cup {rs[i].value : i \in 1..Len(rs)}

LS_collect(h, d, ws, rs) ==
    [v \in DOMAIN h |-> IF v \in LS_live(d, ws, rs) THEN h[v] ELSE LS_freeValue]

LS_freeSlots(h) == {v \in DOMAIN h : h[v].free}

Min(S) == CHOOSE x \in S : \A y \in S : x <= y

RemoveAt(s, i) == SubSeq(s, 1, i - 1) \o SubSeq(s, i + 1, Len(s))

\* new MemoryStoreWritableStream(value, maxEntrySize), which sets
\* value.readLock; key is not a field of the code: it records the route
\* createWriteStream was called for.
LS_newWriter(v, req) ==
    [value |-> v, currentSize |-> 0, body |-> Some(<<>>),
     key |-> [origin |-> req.origin, path |-> req.path, method |-> req.method]]

\* A write stream that takes no read lock.
LS_lockForWrite_unlocked(h, v) == [h EXCEPT ![v].wrote = "open"]

LS_lockForWrite(h, v) == [h EXCEPT ![v].readLock = TRUE, ![v].wrote = "open"]

LS_canOpen == Len(writers) + Len(readers) < MaxOpen

\* The lookup of createWriteStream(req, opts): the tags are saved and the
\* route's list is created before #findValue runs.
LS_writeLookup(req, opts) ==
    LS_findValue(heap, now, entryCount, LS_makeValues(data, req),
                 LS_saveCacheTags(lsTags, req, LS_parseCacheTags(opts.rawHeaders)),
                 req)

\* What createWriteStream(req, opts) returns in the current state: "stream",
\* "undefined", or "never" when the positional search does not end.
LS_writeReturns(req, opts) ==
    IF LS_isFull(entryCount) THEN "undefined"
    ELSE LET f == LS_writeLookup(req, opts)
             values == f.data[req.origin][CacheKeyOf(req.path, req.method)]
         IN IF f.found = 0
            THEN IF LS_isFull(f.entryCount) THEN "undefined"
                 ELSE IF IsDefined(LS_insert(heap, values, 0, opts)) THEN "stream"
                 ELSE "never"
            ELSE IF heap[f.found].writeLock \/ heap[f.found].readLock
                 THEN "undefined"
                 ELSE "stream"

\* createWriteStream(req, opts)
LS_createWriteStream(req, opts) ==
    /\ ~hung
    /\ IF LS_isFull(entryCount)
       THEN UNCHANGED <<entryCount, data, lsTags, heap, writers, hung>>
       ELSE LET cacheTags == LS_parseCacheTags(opts.rawHeaders)
                tg == LS_saveCacheTags(lsTags, req, cacheTags)
                o == [opts EXCEPT !.cacheTags = Some(cacheTags)]
                d == LS_makeValues(data, req)
                f == LS_findValue(heap, now, entryCount, d, tg, req)
                key == CacheKeyOf(req.path, req.method)
                values == f.data[req.origin][key]
            IN IF f.found = 0
               THEN IF LS_isFull(f.entryCount)
                    THEN /\ entryCount' = f.entryCount
                         /\ data' = f.data
                         /\ lsTags' = f.tags
                         /\ heap' = LS_collect(heap, data', writers, readers)
                         /\ UNCHANGED <<writers, hung>>
                    ELSE LET swept == LS_collect(heap, f.data, writers, readers)
                         IN /\ LS_freeSlots(swept) # {}
                            /\ LS_canOpen
                            /\ LET v == Min(LS_freeSlots(swept))
                                   h == [swept EXCEPT ![v] = LS_newValue(o)]
                                   placed == LS_insert(h, values, v, o)
                               IN /\ entryCount' = f.entryCount + 1
                                  /\ lsTags' = f.tags
                                  /\ IF IsDefined(placed)
                                     THEN /\ data' = [f.data EXCEPT
                                                        ![req.origin][key] = placed[1]]
                                          /\ heap' = LS_lockForWrite(h, v)
                                          /\ writers' = Append(writers, LS_newWriter(v, req))
                                          /\ UNCHANGED hung
                                     ELSE /\ data' = f.data
                                          /\ heap' = swept
                                          /\ hung' = TRUE
                                          /\ UNCHANGED writers
               ELSE /\ entryCount' = f.entryCount
                    /\ data' = f.data
                    /\ lsTags' = f.tags
                    /\ UNCHANGED hung
                    /\ IF heap[f.found].writeLock \/ heap[f.found].readLock
                       THEN UNCHANGED <<heap, writers>>
                       ELSE /\ LS_canOpen
                            /\ heap' = LS_lockForWrite(
                                          [heap EXCEPT ![f.found].body = <<>>], f.found)
                            /\ writers' = Append(writers, LS_newWriter(f.found, req))
    /\ UNCHANGED <<now, lsCfg, readers>>

\* The MemoryStoreReadableStream constructor: the stream over a copy of the
\* body, and the value with one more reader and its write lock set.
LS_newReader(h, v) ==
    [value |-> v, chunksToSend |-> Append(h[v].body, EndOfStream),
     delivered |-> <<>>]

LS_lockForRead(h, v) == [h EXCEPT ![v].readers = @ + 1, ![v].writeLock = TRUE]

\* A close handler that keeps the write lock.
LS_unlockForRead_kept(h, v) == [h EXCEPT ![v].readers = @ - 1]

\* A close handler that clears the write lock whatever readers remain.
LS_unlockForRead_early(h, v) ==
    [h EXCEPT ![v].readers = @ - 1, ![v].writeLock = FALSE]

\* The read stream's 'close' handler, on the value.
LS_unlockForRead(h, v) ==
    [h EXCEPT ![v].readers = @ - 1,
              ![v].writeLock = IF h[v].readers - 1 = 0 THEN FALSE ELSE @]

\* A _final that releases the read lock without publishing the body.
LS_commit_unpublished(h, writer) ==
    IF writer.currentSize < lsCfg.maxEntrySize
    THEN [h EXCEPT ![writer.value].readLock = FALSE,
                   ![writer.value].wrote = "committed"]
    ELSE [h EXCEPT ![writer.value].wrote = "oversized"]

\* MemoryStoreWritableStream._final, on the value: the body is published
\* and the read lock released only under the size limit.
LS_commit(h, writer) ==
    IF writer.currentSize < lsCfg.maxEntrySize
    THEN [h EXCEPT ![writer.value].readLock = FALSE,
                   ![writer.value].body = writer.body[1],
                   ![writer.value].wrote = "committed"]
    ELSE [h EXCEPT ![writer.value].wrote = "oversized"]

\* A createReadStream that does not look at the read lock.
LS_readReturns_unlocked(req) ==
    IF LS_selected(req) = 0 THEN "undefined" ELSE "stream"

\* What createReadStream(req) returns in the current state.
LS_readReturns(req) ==
    IF LS_selected(req) = 0 \/ heap[LS_selected(req)].readLock
    THEN "undefined"
    ELSE "stream"

\* createReadStream(req), with the MemoryStoreReadableStream constructor.
LS_createReadStream(req) ==
    /\ ~hung
    /\ IF ~IsDefined(LS_getValues(data, req))
       THEN UNCHANGED <<entryCount, data, lsTags, heap, readers>>
       ELSE LET f == LS_findValue(heap, now, entryCount, data, lsTags, req)
            IN /\ entryCount' = f.entryCount
               /\ data' = f.data
               /\ lsTags' = f.tags
               /\ IF f.found = 0 \/ heap[f.found].readLock
                  THEN /\ heap' = LS_collect(heap, data', writers, readers)
                       /\ UNCHANGED readers
                  ELSE /\ LS_canOpen
                       /\ readers' = Append(readers, LS_newReader(heap, f.found))
                       /\ heap' = LS_lockForRead(heap, f.found)
    /\ UNCHANGED <<now, lsCfg, writers, hung>>

\* The read stream's 'close' handler; the closed stream is dropped.
LS_close(r) ==
    /\ ~hung
    /\ readers' = RemoveAt(readers, r)
    /\ heap' = LS_collect(LS_unlockForRead(heap, readers[r].value),
                          data, writers, readers')
    /\ UNCHANGED <<now, lsCfg, entryCount, data, lsTags, writers, hung>>

\* MemoryStoreWritableStream._write(chunk); the 'bodyOversized' handler of
\* createWriteStream filters the list into a new array and drops it.
LS_write(w, chunk) ==
    /\ ~hung
    /\ LET buf == toBuffer(chunk)
           total == writers[w].currentSize + byteLength(buf)
       IN writers' = [writers EXCEPT
                        ![w].currentSize = total,
                        ![w].body = IF total < lsCfg.maxEntrySize
                                    THEN Some(Append(@[1], buf))
                                    ELSE Undefined]
    /\ UNCHANGED <<now, lsCfg, entryCount, data, lsTags, heap, readers, hung>>

\* MemoryStoreWritableStream._final, run by end(); the ended stream is dropped.
LS_final(w) ==
    /\ ~hung
    /\ writers' = RemoveAt(writers, w)
    /\ heap' = LS_collect(LS_commit(heap, writers[w]), data, writers', readers)
    /\ UNCHANGED <<now, lsCfg, entryCount, data, lsTags, readers, hung>>

\* The rawTrailers setter of the write stream: it assigns to the opts of the
\* value the stream writes to.
LS_setRawTrailers(w, trailers) ==
    /\ ~hung
    /\ heap' = [heap EXCEPT ![writers[w].value].opts.rawTrailers = Some(trailers)]
    /\ UNCHANGED <<now, lsCfg, entryCount, data, lsTags, writers, readers, hung>>

\* MemoryStoreReadableStream._read(n): the first n chunks left, or all of them
\* when fewer are left, are pushed in order; delivered is what the consumer
\* of the stream has been handed. _read is not called on a stream that has
\* pushed its end.
LS_read(r, n) ==
    /\ ~hung
    /\ readers[r].chunksToSend # <<>>
    /\ LET k == IF n > Len(readers[r].chunksToSend)
                THEN Len(readers[r].chunksToSend) ELSE n
       IN readers' = [readers EXCEPT
                        ![r].delivered = @ \o SubSeq(readers[r].chunksToSend, 1, k),
                        ![r].chunksToSend = SubSeq(@, k + 1, Len(@))]
    /\ UNCHANGED <<now, lsCfg, entryCount, data, lsTags, heap, writers, hung>>

\* A deleteByOrigin that also cuts short the read streams open on the
\* origin's entries.
LS_deleteByOrigin_cutting(origin) ==
    /\ ~hung
    /\ data' = MapDelete(data, origin)
    /\ lsTags' = MapDelete(lsTags, origin)
    /\ readers' = [r \in 1..Len(readers) |->
                     IF origin \in DOMAIN data
                        /\ \E k \in DOMAIN data[origin] :
                              readers[r].value \in SeqToSet(data[origin][k])
                     THEN [readers[r] EXCEPT !.chunksToSend = <<EndOfStream>>]
                     ELSE readers[r]]
    /\ heap' = LS_collect(heap, data', writers, readers')
    /\ UNCHANGED <<now, lsCfg, entryCount, writers, hung>>

\* deleteByOrigin(origin): the origin's lists and tags leave the maps; the
\* entry count stays, and so do the values that open streams hold.
LS_deleteByOrigin(origin) ==
    /\ ~hung
    /\ data' = MapDelete(data, origin)
    /\ lsTags' = MapDelete(lsTags, origin)
    /\ heap' = LS_collect(heap, data', writers, readers)
    /\ UNCHANGED <<now, lsCfg, entryCount, writers, readers, hung>>

\* Date.now() advances, up to maxTime.
Tick(maxTime) ==
    /\ now < maxTime
    /\ now' = now + 1
    /\ UNCHANGED <<lsCfg, entryCount, data, lsTags, heap, writers, readers, hung>>
    /\ UNCHANGED <<cfg, size, count, entries, tags, streams>>

\* ------------------------------------- lock-based store: locking scenario

\* One route, requests without headers and with the varied header, responses
\* with and without a vary mapping, no cache tags, the default entry limit and a
\* per-entry size limit of 2 bytes.
LockReqs == {Req("o1", <<"a">>, <<"G">>, hs) :
                hs \in {Undefined, Some([h |-> "x"])}}

LockVaries == {Undefined, Some([h |-> "x"])}

LockDeleteAts == {1, 2}

\* The clock stops once the first deleteAt has passed: the entries with the
\* earlier deleteAt expire, the others stay fresh.
LockMaxTime == Min(LockDeleteAts)

LockOpts == {LS_Opts(200, <<>>, vary, 0, deleteAt) :
                vary \in LockVaries, deleteAt \in LockDeleteAts}

LockConfigs ==
    {[maxEntries |-> n, maxEntrySize |-> 2, cacheTagsHeader |-> Undefined] :
        n \in {1, Infinity}}

\* The index.js store, constructed and left alone.
IxIdle ==
    /\ cfg = [maxCount |-> Infinity, maxSize |-> Infinity,
              maxEntrySize |-> Infinity, cacheTagsHeader |-> Undefined]
    /\ size = 0
    /\ count = 0
    /\ entries = EmptyMap
    /\ tags = EmptyMap
    /\ streams = <<>>

InitLock ==
    /\ now = 0
    /\ IxIdle
    /\ asked = <<>>
    /\ lsCfg \in LockConfigs
    /\ entryCount = 0
    /\ data = EmptyMap
    /\ lsTags = EmptyMap
    /\ heap = [v \in 1..MaxValues |-> LS_freeValue]
    /\ writers = <<>>
    /\ readers = <<>>
    /\ hung = FALSE

LockCreateWriteStream ==
    /\ \E req \in LockReqs, opts \in LockOpts : LS_createWriteStream(req, opts)
    /\ UNCHANGED <<asked, ixVars>>

LockTick == Tick(LockMaxTime) /\ UNCHANGED asked

LockCreateReadStream ==
    /\ \E req \in LockReqs : LS_createReadStream(req)
    /\ UNCHANGED <<asked, ixVars>>

\* A stream that has reached the size limit is written to no further.
LockWrite ==
    \E w \in 1..Len(writers), chunk \in Chunks :
        /\ writers[w].currentSize < lsCfg.maxEntrySize
        /\ LS_write(w, chunk)
        /\ UNCHANGED <<asked, ixVars>>

LockEnd == (\E w \in 1..Len(writers) : LS_final(w)) /\ UNCHANGED <<asked, ixVars>>

LockClose == (\E r \in 1..Len(readers) : LS_close(r)) /\ UNCHANGED <<asked, ixVars>>

NextLock ==
    \/ LockTick
    \/ LockCreateWriteStream
    \/ LockCreateReadStream
    \/ LockWrite
    \/ LockEnd
    \/ LockClose

vars == <<now, lsVars, asked, ixVars>>

SpecLock == InitLock /\ [][NextLock]_vars


\* --------------------------------------------------- index.js: operations

\* The options object handed to the constructor; a field left out is <<>>.
Options(maxCount, maxSize, maxEntrySize, cacheTagsHeader) ==
    [maxCount |-> maxCount, maxSize |-> maxSize, maxEntrySize |-> maxEntrySize,
     cacheTagsHeader |-> cacheTagsHeader]

\* The field defaults and the constructor: a limit that is given replaces
\* Infinity, the tag header name is lower-cased. opts is <<>> for new
\* MemoryCacheStore().
Construct(opts) ==
    [maxCount |-> IF IsDefined(opts) /\ IsDefined(opts[1].maxCount)
                  THEN opts[1].maxCount[1] ELSE Infinity,
     maxSize |-> IF IsDefined(opts) /\ IsDefined(opts[1].maxSize)
                 THEN opts[1].maxSize[1] ELSE Infinity,
     maxEntrySize |-> IF IsDefined(opts) /\ IsDefined(opts[1].maxEntrySize)
                      THEN opts[1].maxEntrySize[1] ELSE Infinity,
     cacheTagsHeader |-> IF IsDefined(opts) /\ IsDefined(opts[1].cacheTagsHeader)
                         THEN Some(toLowerCase(opts[1].cacheTagsHeader[1]))
                         ELSE Undefined]

\* #size, #count, #entries and #tags together, for the private methods.
Store(sz, cnt, ents, tgs) == [size |-> sz, count |-> cnt, entries |-> ents, tags |-> tgs]

Current == Store(size, count, entries, tags)

\* The response metadata handed to createWriteStream: what the caller
\* varies, with the empty statusMessage, the headers { foo: 'bar' } and the
\* empty cacheControlDirectives of the tests, and no etag.
Val(statusCode, rawHeaders, vary, cachedAt, deleteAt) ==
    [statusCode |-> statusCode, statusMessage |-> <<>>,
     headers |-> [foo |-> "bar"], cacheControlDirectives |-> EmptyMap,
     rawHeaders |-> rawHeaders, vary |-> vary,
     cachedAt |-> cachedAt, staleAt |-> cachedAt + 1, deleteAt |-> deleteAt]

\* { ...key, ...val, cacheTags, body: [], size: 0 }: the headers of val
\* replace those of key.
Entry(key, val, cacheTags) ==
    [origin |-> key.origin, path |-> key.path, method |-> key.method,
     headers |-> val.headers,
     statusMessage |-> val.statusMessage,
     cacheControlDirectives |-> val.cacheControlDirectives,
     statusCode |-> val.statusCode, rawHeaders |-> val.rawHeaders,
     vary |-> val.vary, cachedAt |-> val.cachedAt, staleAt |-> val.staleAt,
     deleteAt |-> val.deleteAt,
     cacheTags |-> cacheTags, body |-> <<>>, size |-> 0]

\* A lookup that takes the list of any method stored under the path.
getEntries_anyMethod(ents, key) ==
    IF key.origin \notin DOMAIN ents THEN Undefined
    ELSE IF key.path \notin DOMAIN ents[key.origin] THEN Undefined
    ELSE IF DOMAIN ents[key.origin][key.path] = {} THEN Undefined
    ELSE Some(ents[key.origin][key.path][
                 CHOOSE m \in DOMAIN ents[key.origin][key.path] : TRUE])

\* #getEntries
getEntries(ents, key) ==
    IF key.origin \notin DOMAIN ents THEN Undefined
    ELSE IF key.path \notin DOMAIN ents[key.origin] THEN Undefined
    ELSE MapGet(ents[key.origin][key.path], key.method)

\* A find predicate that does not look at vary.
matches_anyVary(entry, t, key) == entry.deleteAt > t

\* A find predicate that does not look at deleteAt.
matches_unexpiring(entry, t, key) ==
    \/ ~IsDefined(entry.vary)
    \/ \A headerName \in DOMAIN entry.vary[1] :
          Some(entry.vary[1][headerName])
            = (IF IsDefined(key.headers)
               THEN MapGet(key.headers[1], headerName) ELSE Undefined)

\* The predicate of get's entries.find.
matches(entry, t, key) ==
    /\ entry.deleteAt > t
    /\ \/ ~IsDefined(entry.vary)
       \/ \A headerName \in DOMAIN entry.vary[1] :
             Some(entry.vary[1][headerName])
               = (IF IsDefined(key.headers)
                  THEN MapGet(key.headers[1], headerName) ELSE Undefined)

\* Array.prototype.find: the index of the first match from i on, 0 for none.
RECURSIVE find(_, _, _, _)
find(list, t, key, i) ==
    IF i > Len(list) THEN 0
    ELSE IF matches(list[i], t, key) THEN i
    ELSE find(list, t, key, i + 1)

\* The object get returns for an entry; the entries have no etag.
GetResult(entry) ==
    [statusMessage |-> entry.statusMessage, etag |-> Undefined,
     statusCode |-> entry.statusCode, rawHeaders |-> entry.rawHeaders,
     body |-> entry.body, cacheTags |-> entry.cacheTags,
     cachedAt |-> entry.cachedAt, staleAt |-> entry.staleAt,
     deleteAt |-> entry.deleteAt]

\* get(key) on the entries ents at time t. get changes nothing, so it is an
\* operator and no step of the store.
getAt(ents, t, key) ==
    LET list == getEntries(ents, key)
    IN IF ~IsDefined(list) THEN Undefined
       ELSE LET i == find(list[1], t, key, 1)
            IN IF i = 0 THEN Undefined ELSE Some(GetResult(list[1][i]))

get(key) == getAt(entries, now, key)

\* #parseCacheTags
parseCacheTags(rawHeaders) ==
    IF ~IsDefined(cfg.cacheTagsHeader) \/ cfg.cacheTagsHeader[1] = <<>> THEN <<>>
    ELSE ParseTagsFrom(cfg.cacheTagsHeader[1], rawHeaders, 1)

\* #saveCacheTags, on the tag index tgs.
saveCacheTags(tgs, key, cacheTags) ==
    IF Len(cacheTags) = 0 THEN tgs
    ELSE LET originTags == IF key.origin \in DOMAIN tgs THEN tgs[key.origin]
                           ELSE EmptyMap
             cacheKey == CacheKeyOf(key.path, key.method)
         IN MapSet(tgs, key.origin,
                   [cacheTag \in (DOMAIN originTags) \cup SeqToSet(cacheTags) |->
                      IF cacheTag \in SeqToSet(cacheTags)
                      THEN (IF cacheTag \in DOMAIN originTags
                            THEN originTags[cacheTag] ELSE {}) \cup {cacheKey}
                      ELSE originTags[cacheTag]])

\* #unlinkRouteFromCacheTag, on the tag index tgs.
unlinkRouteFromCacheTag(tgs, key, cacheTags) ==
    IF key.origin \notin DOMAIN tgs THEN tgs
    ELSE LET originTags == tgs[key.origin]
             cacheKey == CacheKeyOf(key.path, key.method)
             hit == SeqToSet(cacheTags) \cap DOMAIN originTags
             kept == {cacheTag \in DOMAIN originTags :
                        cacheTag \notin hit \/ originTags[cacheTag] \ {cacheKey} # {}}
         IN MapSet(tgs, key.origin,
                   [cacheTag \in kept |->
                      IF cacheTag \in hit THEN originTags[cacheTag] \ {cacheKey}
                      ELSE originTags[cacheTag]])

\* An entry unlinked from its tags with the totals left as they are.
deleteEntry_uncounted(st, key, entry) ==
    Store(st.size, st.count, st.entries,
          unlinkRouteFromCacheTag(st.tags, key, entry.cacheTags))

\* #deleteEntry
deleteEntry(st, key, entry) ==
    Store(st.size - entry.size, st.count - 1, st.entries,
          unlinkRouteFromCacheTag(st.tags, key, entry.cacheTags))

\* for (const entry of list) this.#deleteEntry(key, entry), from index i on.
RECURSIVE deleteEach(_, _, _, _)
deleteEach(st, key, list, i) ==
    IF i > Len(list) THEN st
    ELSE deleteEach(deleteEntry(st, key, list[i]), key, list, i + 1)

\* #deleteByKey
deleteByKey(st, key) ==
    LET list == getEntries(st.entries, key)
    IN IF ~IsDefined(list) THEN st
       ELSE LET d == deleteEach(st, key, list[1], 1)
                originValues == st.entries[key.origin]
                pathValues == MapDelete(originValues[key.path], key.method)
            IN [d EXCEPT !.entries =
                  MapSet(st.entries, key.origin,
                         IF DOMAIN pathValues = {}
                         THEN MapDelete(originValues, key.path)
                         ELSE MapSet(originValues, key.path, pathValues))]

\* The routes that hold a list: origin, path, method.
Routes(ents) ==
    UNION {UNION {{[origin |-> o, path |-> pa, method |-> m] :
                     m \in DOMAIN ents[o][pa]} :
                  pa \in DOMAIN ents[o]} :
           o \in DOMAIN ents}

\* #deleteHalf over the given routes: the first half of each list (rounded
\* down) is deleted. No list of #entries is ever empty, so the branch for an
\* empty list (which refers to an undefined name) does not run; the tests of
\* .length on the maps compare undefined with 0.
RECURSIVE deleteHalfOf(_, _)
deleteHalfOf(st, routes) ==
    IF routes = {} THEN st
    ELSE LET key == CHOOSE r \in routes : TRUE
             list == st.entries[key.origin][key.path][key.method]
             half == Len(list) \div 2
             d == deleteEach(st, key, SubSeq(list, 1, half), 1)
         IN deleteHalfOf(
              [d EXCEPT !.entries[key.origin][key.path][key.method] =
                          SubSeq(list, half + 1, Len(list))],
              routes \ {key})

deleteHalf(st) == deleteHalfOf(st, Routes(st.entries))

\* A #saveEntry that puts the entry at the front of its list.
saveEntry_front(st, key, entry) ==
    LET originValues == IF key.origin \in DOMAIN st.entries
                        THEN st.entries[key.origin] ELSE EmptyMap
        pathValues == IF key.path \in DOMAIN originValues
                      THEN originValues[key.path] ELSE EmptyMap
        list == IF key.method \in DOMAIN pathValues
                THEN pathValues[key.method] ELSE <<>>
        saved == Store(st.size + entry.size, st.count + 1,
                       MapSet(st.entries, key.origin,
                              MapSet(originValues, key.path,
                                     MapSet(pathValues, key.method,
                                            <<entry>> \o list))),
                       st.tags)
    IN IF saved.size > cfg.maxSize \/ saved.count > cfg.maxCount
       THEN deleteHalf(saved)
       ELSE saved

\* #saveEntry
saveEntry(st, key, entry) ==
    LET originValues == IF key.origin \in DOMAIN st.entries
                        THEN st.entries[key.origin] ELSE EmptyMap
        pathValues == IF key.path \in DOMAIN originValues
                      THEN originValues[key.path] ELSE EmptyMap
        list == IF key.method \in DOMAIN pathValues
                THEN pathValues[key.method] ELSE <<>>
        saved == Store(st.size + entry.size, st.count + 1,
                       MapSet(st.entries, key.origin,
                              MapSet(originValues, key.path,
                                     MapSet(pathValues, key.method,
                                            Append(list, entry)))),
                       st.tags)
    IN IF saved.size > cfg.maxSize \/ saved.count > cfg.maxCount
       THEN deleteHalf(saved)
       ELSE saved

\* The loop of delete(key) over the lists of every method of the path: each
\* entry is deleted under the key handed in.
RECURSIVE deleteLists(_, _, _, _)
deleteLists(st, key, pathValues, methods) ==
    IF methods = {} THEN st
    ELSE LET m == CHOOSE x \in methods : TRUE
         IN deleteLists(deleteEach(st, key, pathValues[m], 1), key, pathValues,
                        methods \ {m})

\* delete(key), on the store st.
deleteFrom(st, key) ==
    IF key.origin \notin DOMAIN st.entries THEN st
    ELSE IF key.path \notin DOMAIN st.entries[key.origin] THEN st
    ELSE LET originValues == st.entries[key.origin]
             pathValues == originValues[key.path]
             d == deleteLists(st, key, pathValues, DOMAIN pathValues)
         IN [d EXCEPT !.entries =
               MapSet(st.entries, key.origin, MapDelete(originValues, key.path))]

\* A parsed URL, and the path deleteRoutes builds from it.
Url(origin, pathname, search, hash) ==
    [origin |-> origin, pathname |-> pathname, search |-> search, hash |-> hash]

\* A key built from the pathname alone.
RouteKey_pathname(route) ==
    [origin |-> route.url.origin, path |-> route.url.pathname, method |-> route.method]

RouteKey(route) ==
    [origin |-> route.url.origin,
     path |-> route.url.pathname \o route.url.search \o route.url.hash,
     method |-> route.method]

\* deleteRoutes(routes), on the store st, from index i on.
RECURSIVE deleteRoutesFrom(_, _, _)
deleteRoutesFrom(st, routes, i) ==
    IF i > Len(routes) THEN st
    ELSE deleteRoutesFrom(deleteByKey(st, RouteKey(routes[i])), routes, i + 1)

\* The key deleteByCacheTags takes from a cache key: cacheKey.split(':').
KeyOfCacheKey(origin, cacheKey) ==
    LET parts == split(cacheKey, ":")
    IN [origin |-> origin, path |-> parts[1], method |-> parts[2]]

\* for (const cacheKey of cacheKeys) this.#deleteByKey(...)
RECURSIVE deleteKeys(_, _, _)
deleteKeys(st, origin, cacheKeys) ==
    IF cacheKeys = {} THEN st
    ELSE LET cacheKey == CHOOSE k \in cacheKeys : TRUE
         IN deleteKeys(deleteByKey(st, KeyOfCacheKey(origin, cacheKey)), origin,
                       cacheKeys \ {cacheKey})

\* The loop of deleteByCacheTags over the tags, from index i on.
RECURSIVE deleteTags(_, _, _, _)
deleteTags(st, origin, cacheTags, i) ==
    IF i > Len(cacheTags) THEN st
    ELSE LET originTags == st.tags[origin]
             cacheTag == cacheTags[i]
         IN IF cacheTag \notin DOMAIN originTags
            THEN deleteTags(st, origin, cacheTags, i + 1)
            ELSE LET d == deleteKeys(st, origin, originTags[cacheTag])
                 IN deleteTags(
                      [d EXCEPT !.tags[origin] = MapDelete(d.tags[origin], cacheTag)],
                      origin, cacheTags, i + 1)

\* deleteByCacheTags(origin, cacheTags), on the store st.
deleteByCacheTagsFrom(st, origin, cacheTags) ==
    IF origin \notin DOMAIN st.tags THEN st
    ELSE IF origin \notin DOMAIN st.entries THEN st
    ELSE deleteTags(st, origin, cacheTags, 1)

\* The store becomes st.
Becomes(st) ==
    /\ size' = st.size
    /\ count' = st.count
    /\ entries' = st.entries
    /\ tags' = st.tags

\* createWriteStream(key, val): the tags are saved at once, the entry is
\* held by the stream.
createWriteStream(key, val) ==
    LET cacheTags == parseCacheTags(val.rawHeaders)
    IN /\ tags' = saveCacheTags(tags, key, cacheTags)
       /\ streams' = Append(streams, [key |-> key, entry |-> Entry(key, val, cacheTags)])
       /\ UNCHANGED <<cfg, size, count, entries>>

\* The stream's write: a string chunk is encoded, the size is added, and the
\* stream is destroyed when the size reaches #maxEntrySize. A destroyed
\* stream takes no further write and never runs final: it is dropped.
write(w, chunk) ==
    LET buf == toBuffer(chunk)
        total == streams[w].entry.size + byteLength(buf)
    IN /\ streams' = IF total >= cfg.maxEntrySize
                     THEN RemoveAt(streams, w)
                     ELSE [streams EXCEPT ![w].entry.size = total,
                                          ![w].entry.body = Append(@, buf)]
       /\ UNCHANGED <<cfg, size, count, entries, tags>>

\* The stream's final, run by end(): #saveEntry; the ended stream is dropped.
final(w) ==
    /\ Becomes(saveEntry(Current, streams[w].key, streams[w].entry))
    /\ streams' = RemoveAt(streams, w)
    /\ UNCHANGED cfg

\* delete(key)
delete(key) == Becomes(deleteFrom(Current, key)) /\ UNCHANGED <<cfg, streams>>

\* deleteRoutes(routes)
deleteRoutes(routes) ==
    Becomes(deleteRoutesFrom(Current, routes, 1)) /\ UNCHANGED <<cfg, streams>>

\* deleteByCacheTags(origin, cacheTags)
deleteByCacheTags(origin, cacheTags) ==
    /\ Becomes(deleteByCacheTagsFrom(Current, origin, cacheTags))
    /\ UNCHANGED <<cfg, streams>>

\* ----------------------------------------------------- index.js: scenario

\* Entries of the index.js store at once, stored or still being written.
IxMaxEntries == 2

\* Chunks written to one stream.
IxMaxChunks == 1

\* The limits the README documents as defaults: 1024 entries, 5MB, 100MB.
DocMaxCount == 1024

DocMaxEntrySize == 5242880

DocMaxSize == 104857600

\* Stores built with no options, with maxCount 1 and a tag header, and with
\* maxEntrySize 0.
IxOptions ==
    {Undefined,
     Some(Options(Some(1), Undefined, Undefined, Some(<<"T">>))),
     Some(Options(Undefined, Undefined, Some(0), Undefined))}

\* Two routes of one origin, requests without headers.
IxKeys == {Req("o1", pa, <<"G">>, Undefined) : pa \in {<<"a">>, <<"b">>}}

IxDeleteAts == {1, 2}

\* The clock stops once the first deleteAt has passed.
IxMaxTime == Min(IxDeleteAts)

\* Responses without tags and with the tag p.
IxVals == {Val(200, rawHeaders, Undefined, 0, deleteAt) :
              rawHeaders \in {<<>>, << <<"T">>, <<"p">> >>},
              deleteAt \in IxDeleteAts}

\* A one-byte buffer and a string that encodes to 6MB.
IxChunks == {Chunk(1, 1, FALSE), Chunk(2, 6 * 1024 * 1024, TRUE)}

IxTagLists == {<< <<"p">> >>}

IxRouteLists ==
    {<< [method |-> key.method, url |-> Url(key.origin, key.path, <<>>, <<>>)] >> :
        key \in IxKeys}

\* The number of entries the lists of the given routes hold, and their sizes.
RECURSIVE storedCount(_, _)
storedCount(ents, routes) ==
    IF routes = {} THEN 0
    ELSE LET key == CHOOSE r \in routes : TRUE
         IN Len(ents[key.origin][key.path][key.method])
              + storedCount(ents, routes \ {key})

RECURSIVE sizeOf(_, _)
sizeOf(list, i) == IF i > Len(list) THEN 0 ELSE list[i].size + sizeOf(list, i + 1)

RECURSIVE storedSize(_, _)
storedSize(ents, routes) ==
    IF routes = {} THEN 0
    ELSE LET key == CHOOSE r \in routes : TRUE
         IN sizeOf(ents[key.origin][key.path][key.method], 1)
              + storedSize(ents, routes \ {key})

\* The lock-based store, constructed and left alone.
LsIdle ==
    /\ lsCfg = [maxEntries |-> Infinity, maxEntrySize |-> Infinity,
                cacheTagsHeader |-> Undefined]
    /\ entryCount = 0
    /\ data = EmptyMap
    /\ lsTags = EmptyMap
    /\ heap = [v \in 1..MaxValues |-> LS_freeValue]
    /\ writers = <<>>
    /\ readers = <<>>
    /\ hung = FALSE

InitIx ==
    /\ now = 0
    /\ LsIdle
    /\ asked = <<>>
    /\ cfg \in {Construct(opts) : opts \in IxOptions}
    /\ size = 0
    /\ count = 0
    /\ entries = EmptyMap
    /\ tags = EmptyMap
    /\ streams = <<>>

IxTick == Tick(IxMaxTime) /\ UNCHANGED asked

IxCreateWriteStream ==
    /\ storedCount(entries, Routes(entries)) + Len(streams) < IxMaxEntries
    /\ \E key \in IxKeys, val \in IxVals : createWriteStream(key, val)
    /\ UNCHANGED <<now, lsVars, asked>>

IxWrite ==
    /\ \E w \in 1..Len(streams), chunk \in IxChunks :
          /\ Len(streams[w].entry.body) < IxMaxChunks
          /\ write(w, chunk)
    /\ UNCHANGED <<now, lsVars, asked>>

IxEnd == (\E w \in 1..Len(streams) : final(w)) /\ UNCHANGED <<now, lsVars, asked>>

IxDelete == (\E key \in IxKeys : delete(key)) /\ UNCHANGED <<now, lsVars, asked>>

IxDeleteRoutes ==
    (\E routes \in IxRouteLists : deleteRoutes(routes)) /\ UNCHANGED <<now, lsVars, asked>>

IxDeleteByCacheTags ==
    /\ \E key \in IxKeys, cacheTags \in IxTagLists :
          deleteByCacheTags(key.origin, cacheTags)
    /\ UNCHANGED <<now, lsVars, asked>>

NextIx ==
    \/ IxTick
    \/ IxCreateWriteStream
    \/ IxWrite
    \/ IxEnd
    \/ IxDelete
    \/ IxDeleteRoutes
    \/ IxDeleteByCacheTags

SpecIx == InitIx /\ [][NextIx]_vars

\* ------------------------------------------------- claims: locking (C1-C3)

\* The route a write stream was opened for is the route of the request.
LS_sameRoute(writer, req) ==
    /\ writer.key.origin = req.origin
    /\ writer.key.path = req.path
    /\ writer.key.method = req.method

LS_listed(v, req) ==
    /\ IsDefined(LS_getValues(data, req))
    /\ v \in SeqToSet(LS_getValues(data, req)[1])

\* C2 as stated: for an entry whose last write ended under maxEntrySize,
\* createReadStream with matching headers returns a stream on it; while a
\* read stream on it is open createWriteStream returns undefined; with no
\* read stream open createWriteStream returns a stream on it.
C2_AsStated ==
    \A v \in DOMAIN heap, req \in LockReqs :
        (/\ heap[v].wrote = "committed"
         /\ LS_listed(v, req)
         /\ LS_varyTest(req, heap[v].opts) = "match")
        => /\ LS_readReturns(req) = "stream"
           /\ LS_selected(req) = v
           /\ \A opts \in LockOpts :
                 IF heap[v].readers > 0
                 THEN LS_writeReturns(req, opts) = "undefined"
                 ELSE /\ LS_writeReturns(req, opts) = "stream"
                      /\ LS_writeLookup(req, opts).found = v

\* The lock protocol of a store that is not full: for an entry whose last
\* write ended under maxEntrySize and that the lookup selects (not expired,
\* no matching entry nearer the tail),
\* createReadStream returns a stream on it; while a read stream on it is open
\* createWriteStream returns undefined; once its last read stream has closed
\* and the store is not full, createWriteStream returns a stream on it.
C2_ReadThenWrite ==
    \A req \in LockReqs :
        LET v == LS_selected(req)
        IN (v # 0 /\ heap[v].wrote = "committed")
           => /\ LS_readReturns(req) = "stream"
              /\ \A opts \in LockOpts :
                    IF heap[v].readers > 0 \/ LS_isFull(entryCount)
                    THEN LS_writeReturns(req, opts) = "undefined"
                    ELSE /\ LS_writeReturns(req, opts) = "stream"
                         /\ LS_writeLookup(req, opts).found = v

\* C2's case: an entry whose write ended under the cap is selected by a
\* request and createReadStream has returned a stream on it that is still
\* open, so the entry holds the write lock.
C2_Witness ==
    \E req \in LockReqs, r \in 1..Len(readers) :
        /\ LS_selected(req) = readers[r].value
        /\ heap[readers[r].value].wrote = "committed"
        /\ heap[readers[r].value].writeLock

\* C3 as stated: after a write stream that reached maxEntrySize has ended,
\* createWriteStream for the same key (entry not expired, store not full)
\* returns a stream.
C3_AsStated ==
    \A req \in LockReqs :
        LET v == LS_selected(req)
        IN (v # 0 /\ heap[v].wrote = "oversized" /\ ~LS_isFull(entryCount))
           => \A opts \in LockOpts : LS_writeReturns(req, opts) = "stream"

\* The calls return what LS_readReturns and LS_writeReturns say: a stream is
\* opened exactly when "stream", the call hangs exactly when "never".
LS_ReturnsAgree ==
    [][\A req \in LockReqs :
          /\ LS_createReadStream(req)
             => (Len(readers') = Len(readers) + 1 <=> LS_readReturns(req) = "stream")
          /\ \A opts \in LockOpts :
                LS_createWriteStream(req, opts)
                => /\ Len(writers') = Len(writers) + 1
                      <=> LS_writeReturns(req, opts) = "stream"
                   /\ hung' <=> LS_writeReturns(req, opts) = "never"]_vars

\* ----------------------------------- lock-based store: overwrite scenario

\* What the caller of createWriteStream asked for: the opts handed in, with
\* the cache tags createWriteStream parses into them, and whether the lookup
\* selected an entry to overwrite.
LS_Asked(req, opts) ==
    [opts |-> [opts EXCEPT !.cacheTags = Some(LS_parseCacheTags(opts.rawHeaders))],
     over |-> LS_writeLookup(req, opts).found # 0]

\* The locking scenario, with asked kept beside the open write streams.
OverwriteCreateWriteStream ==
    /\ \E req \in LockReqs, opts \in LockOpts :
          /\ LS_createWriteStream(req, opts)
          /\ asked' = IF Len(writers') > Len(writers)
                      THEN Append(asked, LS_Asked(req, opts))
                      ELSE asked
    /\ UNCHANGED ixVars

OverwriteEnd ==
    /\ \E w \in 1..Len(writers) : LS_final(w) /\ asked' = RemoveAt(asked, w)
    /\ UNCHANGED ixVars

NextOverwrite ==
    \/ LockTick
    \/ OverwriteCreateWriteStream
    \/ LockCreateReadStream
    \/ LockWrite
    \/ OverwriteEnd
    \/ LockClose

SpecOverwrite == InitLock /\ [][NextOverwrite]_vars

\* C10 as stated: when a write stream that createWriteStream opened on a
\* committed, unlocked, non-expired matching entry ends under the size cap,
\* the entry holds the body written and the metadata of the new write: the
\* value a later read stream shows equals the new opts.
C10_AsStated ==
    [][\A w \in 1..Len(writers) :
          (/\ LS_final(w)
           /\ asked[w].over
           /\ writers[w].currentSize < lsCfg.maxEntrySize
           /\ ~heap'[writers[w].value].free)
          => /\ heap'[writers[w].value].body = writers[w].body[1]
             /\ heap'[writers[w].value].opts = asked[w].opts]_vars

\* ------------------------------------------------ claims: index.js (C4-C9)

\* The bytes of a body.
RECURSIVE bytesOf(_, _)
bytesOf(body, i) ==
    IF i > Len(body) THEN 0 ELSE byteLength(body[i]) + bytesOf(body, i + 1)

\* C4 as stated: whenever a commit has finished, the number of stored
\* entries is at most maxCount and the sum of their sizes at most maxSize.
\* (Before the first commit the store is empty; a delete only removes.)
C4_AsStated ==
    /\ storedCount(entries, Routes(entries)) <= cfg.maxCount
    /\ storedSize(entries, Routes(entries)) <= cfg.maxSize

\* C5 as stated: no get returns the body of a stream whose chunks (the empty
\* sequence included) total maxEntrySize or more.
C5_AsStated ==
    \A key \in IxKeys :
        IsDefined(get(key)) => bytesOf(get(key)[1].body, 1) < cfg.maxEntrySize

\* C6 as stated: a store constructed with no options keeps the documented
\* defaults: no get returns a body above 5MB, at most 1024 keys are
\* retrievable, and the stored sizes total at most 100MB.
C6_AsStated ==
    cfg = Construct(Undefined)
    => /\ \A key \in IxKeys :
             IsDefined(get(key)) => bytesOf(get(key)[1].body, 1) <= DocMaxEntrySize
       /\ Cardinality({key \in IxKeys : IsDefined(get(key))}) <= DocMaxCount
       /\ storedSize(entries, Routes(entries)) <= DocMaxSize

\* The entry carries one of the given tags.
tagged(cacheTags, given) == SeqToSet(cacheTags) \cap SeqToSet(given) # {}

\* The entries stored under an origin.
entriesOf(ents, origin) ==
    UNION {SeqToSet(ents[r.origin][r.path][r.method]) :
             r \in {x \in Routes(ents) : x.origin = origin}}

\* C7 as stated: in a store configured with cacheTagsHeader, once
\* deleteByCacheTags(origin, tags) has returned, no entry of the origin that
\* carries one of the tags is stored or returned by get.
C7_AsStated ==
    IsDefined(cfg.cacheTagsHeader)
    => \A key \in IxKeys, given \in IxTagLists :
          LET st == deleteByCacheTagsFrom(Current, key.origin, given)
          IN /\ \A entry \in entriesOf(st.entries, key.origin) :
                   ~tagged(entry.cacheTags, given)
             /\ \A k \in IxKeys :
                   (k.origin = key.origin /\ IsDefined(getAt(st.entries, now, k)))
                   => ~tagged(getAt(st.entries, now, k)[1].cacheTags, given)

\* C8 as stated: deleteByCacheTags(origin, tags) leaves every entry that
\* carries none of the tags stored, in its list and in order, and retrievable
\* as before.
C8_AsStated ==
    \A key \in IxKeys, given \in IxTagLists :
        LET st == deleteByCacheTagsFrom(Current, key.origin, given)
            untagged(entry) == ~tagged(entry.cacheTags, given)
        IN /\ \A r \in Routes(entries) :
                 SelectSeq(entries[r.origin][r.path][r.method], untagged)
                   = (IF IsDefined(getEntries(st.entries, r))
                      THEN SelectSeq(getEntries(st.entries, r)[1], untagged)
                      ELSE <<>>)
           /\ \A k \in IxKeys :
                 (IsDefined(get(k)) /\ ~tagged(get(k)[1].cacheTags, given))
                 => getAt(st.entries, now, k) = get(k)

\* C9 as stated: when a stream commits a non-expired response for a key
\* whose get already returns an entry, the next get of the key returns the
\* body and metadata just committed.
C9_AsStated ==
    [][\A w \in 1..Len(streams) :
          (/\ final(w)
           /\ IsDefined(get(streams[w].key))
           /\ streams[w].entry.deleteAt > now)
          => getAt(entries', now', streams[w].key)
               = Some(GetResult(streams[w].entry))]_vars

\* ----------------------------------------------- claims: C11 and onwards

\* The metadata fields a caller supplies at write time.
WrittenFields ==
    {"statusCode", "statusMessage", "headers", "cacheControlDirectives",
     "cachedAt", "staleAt", "deleteAt"}

\* C11 as stated: when a stream for a key that holds no entry ends (with a
\* deleteAt still ahead), get with an equal key returns a result whose body
\* is the chunks written, in order, and in which every metadata field
\* supplied at write time has the value written.
C11_AsStated ==
    [][\A w \in 1..Len(streams) :
          (/\ final(w)
           /\ ~IsDefined(getEntries(entries, streams[w].key))
           /\ streams[w].entry.deleteAt > now)
          => LET r == getAt(entries', now', streams[w].key)
             IN /\ IsDefined(r)
                /\ r[1].body = streams[w].entry.body
                /\ \A f \in WrittenFields :
                      /\ f \in DOMAIN r[1]
                      /\ r[1][f] = streams[w].entry[f]]_vars


\* ---------------------------------- lock-based store: round-trip scenario

\* Two one-byte chunks, a Buffer and a string, under a per-entry limit of 3
\* bytes: a body of two chunks is committed, a third chunk reaches the limit.
TripChunks == {Chunk(1, 1, FALSE), Chunk(2, 1, TRUE)}

TripTrailers == {<<"a">>, <<"b">>}

\* Responses with and without a vary mapping, which expire when the clock
\* of the scenario reaches its end.
TripOpts == {LS_Opts(200, <<>>, vary, 0, LockMaxTime) : vary \in LockVaries}

TripConfigs ==
    {[maxEntries |-> Infinity, maxEntrySize |-> 3, cacheTagsHeader |-> Undefined]}

\* The sizes _read is called with: one chunk at a time, and the default high
\* water mark of a byte stream.
TripReadSizes == {1, 16384}

\* The number of value objects alive at once in this scenario.
TripMaxValues == 1

InitTrip ==
    /\ now = 0
    /\ IxIdle
    /\ asked = <<>>
    /\ lsCfg \in TripConfigs
    /\ entryCount = 0
    /\ data = EmptyMap
    /\ lsTags = EmptyMap
    /\ heap = [v \in 1..TripMaxValues |-> LS_freeValue]
    /\ writers = <<>>
    /\ readers = <<>>
    /\ hung = FALSE

\* The values stored under the key of a request.
LS_stored(d, req) ==
    IF IsDefined(LS_getValues(d, req)) THEN LS_getValues(d, req)[1] ELSE <<>>

\* What the caller of an open write stream has done with it: the request and
\* opts it was created for, whether it overwrites, whether the key held no
\* entry, the chunks written so far and the trailers set last.
LS_Written(req, opts) ==
    [req |-> req,
     opts |-> [opts EXCEPT !.cacheTags = Some(LS_parseCacheTags(opts.rawHeaders))],
     over |-> LS_writeLookup(req, opts).found # 0,
     fresh |-> LS_stored(data, req) = <<>>,
     chunks |-> <<>>,
     trailers |-> Undefined]

\* The caller of this scenario opens one write stream at a time.
TripCreateWriteStream ==
    /\ writers = <<>>
    /\ \E req \in LockReqs, opts \in TripOpts :
          /\ LS_createWriteStream(req, opts)
          /\ asked' = IF Len(writers') > Len(writers)
                      THEN Append(asked, LS_Written(req, opts))
                      ELSE asked
    /\ UNCHANGED ixVars

TripWrite ==
    \E w \in 1..Len(writers), chunk \in TripChunks :
        /\ writers[w].currentSize < lsCfg.maxEntrySize
        /\ LS_write(w, chunk)
        /\ asked' = [asked EXCEPT ![w].chunks = Append(@, chunk)]
        /\ UNCHANGED ixVars

TripSetRawTrailers ==
    \E w \in 1..Len(writers), trailers \in TripTrailers :
        /\ LS_setRawTrailers(w, trailers)
        /\ asked' = [asked EXCEPT ![w].trailers = Some(trailers)]
        /\ UNCHANGED ixVars

\* and reads one stored response at a time.
TripCreateReadStream ==
    /\ readers = <<>>
    /\ \E req \in LockReqs : LS_createReadStream(req)
    /\ UNCHANGED <<asked, ixVars>>

TripRead ==
    /\ \E r \in 1..Len(readers), n \in TripReadSizes : LS_read(r, n)
    /\ UNCHANGED <<asked, ixVars>>

TripOrigins == {req.origin : req \in LockReqs}

\* deleteByOrigin leaves the entry count as it is, so the count grows with
\* every entry deleted this way: the scenario calls it while the count is
\* below TripMaxCounted.
TripMaxCounted == 2

TripDeleteByOrigin ==
    /\ entryCount < TripMaxCounted
    /\ \E origin \in TripOrigins : LS_deleteByOrigin(origin)
    /\ UNCHANGED <<asked, ixVars>>

NextTrip ==
    \/ LockTick
    \/ TripCreateWriteStream
    \/ TripWrite
    \/ TripSetRawTrailers
    \/ OverwriteEnd
    \/ TripCreateReadStream
    \/ TripRead
    \/ LockClose

SpecTrip == InitTrip /\ [][NextTrip]_vars

\* The round-trip scenario without trailers and with deleteByOrigin.
NextDelete ==
    \/ LockTick
    \/ TripDeleteByOrigin
    \/ TripCreateWriteStream
    \/ TripWrite
    \/ OverwriteEnd
    \/ TripCreateReadStream
    \/ TripRead
    \/ LockClose

SpecDelete == InitTrip /\ [][NextDelete]_vars


\* ------------------------------------------------------------ claims: C12

\* The chunks as the write stream stores them.
RECURSIVE buffersOf(_)
buffersOf(chunks) ==
    IF chunks = <<>> THEN <<>>
    ELSE <<toBuffer(Head(chunks))>> \o buffersOf(Tail(chunks))

\* A read stream created now for the request yields the chunks written and
\* then the end of the stream, and its value is the opts written with the
\* trailers set last.
LS_readsBack(req, written) ==
    /\ LS_readReturns(req) = "stream"
    /\ LS_newReader(heap, LS_selected(req)).chunksToSend
          = Append(buffersOf(written.chunks), EndOfStream)
    /\ heap[LS_selected(req)].opts
          = [written.opts EXCEPT !.rawTrailers = written.trailers]

\* C12 as stated: when a write stream on a key that held no entry has been
\* written chunks, given trailers and ended, a read stream created with an
\* equal request yields exactly those chunks in order and then the end of the
\* stream, and its value equals the written opts with the trailers set last.
C12_AsStated ==
    [][\A w \in 1..Len(writers), req \in LockReqs :
          (LS_final(w) /\ asked[w].fresh /\ req = asked[w].req)
          => \E written \in {asked[w]} : LS_readsBack(req, written)']_vars

\* C12: the same, for a write that ended under maxEntrySize and an entry the
\* lookup of the request selects (the clock is below its deleteAt and the
\* request's headers satisfy its vary).
C12_RoundTrip ==
    [][\A w \in 1..Len(writers), req \in LockReqs :
          (/\ LS_final(w)
           /\ asked[w].fresh
           /\ req = asked[w].req
           /\ writers[w].currentSize < lsCfg.maxEntrySize
           /\ LS_selected(req)' = writers[w].value)
          => \E written \in {asked[w]} : LS_readsBack(req, written)']_vars

\* A committed entry of two chunks with trailers, which a request selects
\* and a read stream has delivered in full.
C12_Witness ==
    \E req \in LockReqs, r \in 1..Len(readers) :
        /\ LS_selected(req) = readers[r].value
        /\ heap[readers[r].value].wrote = "committed"
        /\ Len(heap[readers[r].value].body) = 2
        /\ IsDefined(heap[readers[r].value].opts.rawTrailers)
        /\ readers[r].chunksToSend = <<>>
        /\ readers[r].delivered = Append(heap[readers[r].value].body, EndOfStream)


\* ----------------------------------------------- index.js: serving scenario

\* One route under two methods, requested without headers and with either
\* value of the varied header; responses that vary on nothing or on one value
\* of the header, stale from time 1 on, with the default limits.
ServeHeaders == {Undefined, Some([h |-> "x"]), Some([h |-> "y"])}

ServeMethods == {<<"G">>, <<"P">>}

ServeReqs == {Req("o1", <<"a">>, method, hs) :
                 method \in ServeMethods, hs \in ServeHeaders}

\* The keys written and deleted carry no headers.
ServeKeys == {key \in ServeReqs : ~IsDefined(key.headers)}

ServeVals == {Val(200, <<>>, vary, 0, deleteAt) :
                 vary \in ServeHeaders, deleteAt \in IxDeleteAts}

ServeChunks == {Chunk(1, 1, FALSE)}

\* The number of responses stored or being written at once.
ServeMaxEntries == 2

InitServe ==
    /\ now = 0
    /\ LsIdle
    /\ asked = <<>>
    /\ cfg = Construct(Undefined)
    /\ size = 0
    /\ count = 0
    /\ entries = EmptyMap
    /\ tags = EmptyMap
    /\ streams = <<>>

ServeCreateWriteStream ==
    /\ storedCount(entries, Routes(entries)) + Len(streams) < ServeMaxEntries
    /\ \E key \in ServeKeys, val \in ServeVals : createWriteStream(key, val)
    /\ UNCHANGED <<now, lsVars, asked>>

\* A response body is written as one chunk.
ServeWrite ==
    /\ \E w \in 1..Len(streams), chunk \in ServeChunks :
          /\ streams[w].entry.body = <<>>
          /\ write(w, chunk)
    /\ UNCHANGED <<now, lsVars, asked>>

ServeDelete == (\E key \in ServeKeys : delete(key)) /\ UNCHANGED <<now, lsVars, asked>>

NextServe ==
    \/ IxTick
    \/ ServeCreateWriteStream
    \/ ServeWrite
    \/ IxEnd
    \/ ServeDelete

SpecServe == InitServe /\ [][NextServe]_vars

\* ------------------------------------------------ either store in service

\* A program constructs one of the two stores and works with it.
InitEither == InitLock \/ InitServe

\* The store that was constructed is the one that takes the steps.
NextEither ==
    \/ lsCfg \in LockConfigs /\ NextLock
    \/ lsCfg \notin LockConfigs /\ NextServe

SpecEither == InitEither /\ [][NextEither]_vars


\* ------------------------------------------------------------ claims: C13

\* C13: whatever was written, in whatever order and with whatever staleAt,
\* the entry get returns and the entry createReadStream returns a stream on
\* have a deleteAt above the current time.
C13_NoExpired ==
    /\ \A key \in ServeReqs :
          IsDefined(get(key)) => get(key)[1].deleteAt > now
    /\ \A req \in LockReqs :
          LS_readReturns(req) = "stream"
          => heap[LS_selected(req)].opts.deleteAt > now

\* The list of a key starts with an expired entry the request matches, and
\* get returns the entry written after it.
C13_Witness ==
    \E key \in ServeReqs :
        /\ IsDefined(getEntries(entries, key))
        /\ Len(getEntries(entries, key)[1]) = 2
        /\ getEntries(entries, key)[1][1].deleteAt <= now
        /\ matches([getEntries(entries, key)[1][1] EXCEPT !.deleteAt = now + 1],
                   now, key)
        /\ IsDefined(get(key))
        /\ get(key)[1].deleteAt > now


\* ------------------------------------------------------------ claims: C14

\* The entries stored under the key of a request.
storedUnder(key) ==
    IF IsDefined(getEntries(entries, key)) THEN getEntries(entries, key)[1] ELSE <<>>

\* C14 as stated: a stored entry whose vary the request satisfies is what
\* get returns for the request at every time from its staleAt up to, and not
\* including, its deleteAt.
C14_AsStated ==
    \A key \in ServeReqs :
        \A i \in 1..Len(storedUnder(key)) :
            LET entry == storedUnder(key)[i]
            IN (/\ matches(entry, now, key)
                /\ entry.staleAt <= now)
               => get(key) = Some(GetResult(entry))


\* ------------------------------------------------------------ claims: C15

\* The vary half of get's find predicate: the entry has no vary mapping, or
\* every header it names has the same value in the request.
varySatisfied(entry, key) ==
    \/ ~IsDefined(entry.vary)
    \/ \A headerName \in DOMAIN entry.vary[1] :
          Some(entry.vary[1][headerName])
            = (IF IsDefined(key.headers)
               THEN MapGet(key.headers[1], headerName) ELSE Undefined)

\* C15: when a key holds two non-expired entries whose vary mappings differ,
\* get returns, for a request that satisfies the vary mapping of one of them
\* and not of the other, that entry, and undefined for a request that
\* satisfies neither mapping.
C15_VarySelects ==
    \A key \in ServeReqs :
        LET list == storedUnder(key)
        IN (/\ Len(list) = 2
            /\ list[1].deleteAt > now
            /\ list[2].deleteAt > now
            /\ list[1].vary # list[2].vary)
           => /\ \A i \in 1..2 :
                    (varySatisfied(list[i], key) /\ ~varySatisfied(list[3 - i], key))
                    => get(key) = Some(GetResult(list[i]))
              /\ (~varySatisfied(list[1], key) /\ ~varySatisfied(list[2], key))
                    => get(key) = Undefined

\* A key holds an entry for each value of the varied header: the request
\* with the second value is answered with the second entry, and the request
\* without headers with nothing.
C15_Witness ==
    \E key \in ServeReqs, other \in ServeReqs :
        LET list == storedUnder(key)
        IN /\ Len(list) = 2
           /\ list[1].deleteAt > now
           /\ list[2].deleteAt > now
           /\ IsDefined(list[1].vary)
           /\ IsDefined(list[2].vary)
           /\ list[1].vary # list[2].vary
           /\ list[1].body # list[2].body
           /\ get(key) = Some(GetResult(list[2]))
           /\ other.method = key.method
           /\ ~IsDefined(other.headers)
           /\ get(other) = Undefined


\* ------------------------------------------------------------ claims: C16

\* Requests on keys no write stream is opened for: another method of the
\* route written to, another path of its origin, and its path under another
\* origin.
NeverWritten ==
    {Req(k[1], k[2], k[3], hs) :
        k \in {<<"o1", <<"a">>, <<"D">> >>,
               <<"o1", <<"b">>, <<"G">> >>,
               <<"o2", <<"a">>, <<"G">> >>},
        hs \in ServeHeaders}

\* C16: whatever is done on other keys, get and createReadStream return
\* undefined for a key no write stream was opened for.
C16_NeverWritten ==
    \A key \in NeverWritten :
        /\ get(key) = Undefined
        /\ LS_readReturns(key) = "undefined"

\* Entries are stored and served under the route's written methods, at a time
\* when get returns undefined for its unwritten method.
C16_Witness ==
    /\ \A key \in ServeKeys : IsDefined(get(key))
    /\ \A key \in NeverWritten : get(key) = Undefined


\* ------------------------------------------------------------ claims: C17

\* C17 as stated: delete(key) leaves what get returns unchanged for every
\* request on another method, another path or another origin.
C17_AsStated ==
    [][\A key \in ServeKeys :
          (delete(key) /\ now' = now)
          => \A other \in ServeReqs \cup NeverWritten :
                (\/ other.origin # key.origin
                 \/ other.path # key.path
                 \/ other.method # key.method)
                => getAt(entries', now', other) = get(other)]_vars


\* ------------------------------------------------------------ claims: C18

\* C18 as stated: when the store holds maxEntries entries and the lookup of
\* createWriteStream selects an entry of the key that no stream has locked,
\* createWriteStream returns a stream on that entry.
C18_AsStated ==
    \A req \in LockReqs, opts \in LockOpts :
        (/\ entryCount = lsCfg.maxEntries
         /\ LS_selected(req) # 0
         /\ ~heap[LS_selected(req)].readLock
         /\ ~heap[LS_selected(req)].writeLock)
        => LS_writeReturns(req, opts) = "stream"


\* ------------------------------------------------------------ claims: C19

\* C19 as stated: at every moment, for every request, at most one stored
\* entry of the request's key is not expired and has a vary mapping that is
\* absent or satisfied by the request's headers.
C19_AsStated ==
    \A key \in ServeReqs :
        Cardinality({i \in 1..Len(storedUnder(key)) :
                        matches(storedUnder(key)[i], now, key)}) <= 1


\* ------------------------------------------------------------ claims: C20

\* A read stream is open on an entry stored under the origin.
LS_readingFrom(origin) ==
    /\ origin \in DOMAIN data
    /\ \E r \in 1..Len(readers), k \in DOMAIN data[origin] :
          readers[r].value \in SeqToSet(data[origin][k])

\* C20: deleteByOrigin(origin) called while a read stream on an entry of the
\* origin is open leaves every open read stream as it is, and createReadStream
\* returns undefined for the origin from then on, for as long as the origin
\* holds no list; what an open read stream has delivered and has yet to
\* deliver is at all times the body committed to its entry, in order, and
\* then the end of the stream.
C20_DeleteWhileReading ==
    [][/\ \A origin \in TripOrigins :
             (LS_deleteByOrigin(origin) /\ LS_readingFrom(origin))
             => /\ readers' = readers
                /\ origin \notin DOMAIN data'
       /\ \A req \in LockReqs :
             req.origin \notin DOMAIN data' => LS_readReturns(req)' = "undefined"
       /\ \A r \in 1..Len(readers') :
             readers'[r].delivered \o readers'[r].chunksToSend
               = Append(heap'[readers'[r].value].body, EndOfStream)]_vars

\* The origin has been deleted while a read stream on a two-chunk entry was
\* open, and the stream has since delivered both chunks and the end.
C20_Witness ==
    \E r \in 1..Len(readers) :
        /\ data = EmptyMap
        /\ Len(heap[readers[r].value].body) = 2
        /\ readers[r].chunksToSend = <<>>
        /\ readers[r].delivered = Append(heap[readers[r].value].body, EndOfStream)


\* ------------------------------------------------ index.js: construction

\* A JavaScript value as the constructor tells values apart: t is what typeof
\* gives, kind the sort of value within the type, n the number it carries (a
\* fraction carries the integer below it) and s the text of a string.
JsValue(t, kind, n, s) == [t |-> t, kind |-> kind, n |-> n, s |-> s]

JsUndefined == JsValue("undefined", "undefined", 0, <<>>)

JsNull == JsValue("object", "null", 0, <<>>)

JsBoolean(b) == JsValue("boolean", IF b THEN "true" ELSE "false", 0, <<>>)

JsInteger(n) == JsValue("number", "integer", n, <<>>)

JsFraction(n) == JsValue("number", "fraction", n, <<>>)

JsNaN == JsValue("number", "nan", 0, <<>>)

JsInfinity == JsValue("number", "infinity", Infinity, <<>>)

JsString(s) == JsValue("string", "string", 0, s)

\* An options object with the four properties the constructor reads.
JsOptions(maxCount, maxSize, maxEntrySize, cacheTagsHeader) ==
    [t |-> "object", kind |-> "object", n |-> 0, s |-> <<>>,
     maxCount |-> maxCount, maxSize |-> maxSize, maxEntrySize |-> maxEntrySize,
     cacheTagsHeader |-> cacheTagsHeader]

\* if (x): false for undefined, null, false, 0, NaN and the empty string.
truthy(x) ==
    ~ \/ x.kind \in {"undefined", "null", "false", "nan"}
      \/ x.kind = "integer" /\ x.n = 0
      \/ x.t = "string" /\ x.s = <<>>

\* The test the constructor puts a limit to before it stores it:
\* typeof x === 'number' && Number.isInteger(x) && !(x < 0).
isLimit(x) == x.t = "number" /\ x.kind = "integer" /\ ~(x.n < 0)

\* The limits a store starts with.
Defaults ==
    [maxCount |-> Infinity, maxSize |-> Infinity, maxEntrySize |-> Infinity,
     cacheTagsHeader |-> Undefined]

\* new MemoryCacheStore(opts): whether the constructor threw, and the
\* limits of the store it built when it did not.
constructor(opts) ==
    IF ~truthy(opts) THEN [threw |-> FALSE, cfg |-> Defaults]
    ELSE IF opts.t # "object" THEN [threw |-> TRUE, cfg |-> Defaults]
    ELSE IF \E f \in {"maxCount", "maxSize", "maxEntrySize"} :
               opts[f] # JsUndefined /\ ~isLimit(opts[f])
    THEN [threw |-> TRUE, cfg |-> Defaults]
    ELSE [threw |-> FALSE,
          cfg |-> [maxCount |-> IF opts.maxCount # JsUndefined
                                THEN opts.maxCount.n ELSE Infinity,
                   maxSize |-> IF opts.maxSize # JsUndefined
                               THEN opts.maxSize.n ELSE Infinity,
                   maxEntrySize |-> IF opts.maxEntrySize # JsUndefined
                                    THEN opts.maxEntrySize.n ELSE Infinity,
                   cacheTagsHeader |-> IF opts.cacheTagsHeader.t = "string"
                                       THEN Some(toLowerCase(opts.cacheTagsHeader.s))
                                       ELSE Undefined]]

\* The values a caller may pass for a limit, and for the options.
NewLimits ==
    {JsUndefined, JsNull, JsBoolean(TRUE), JsInteger(0), JsInteger(5),
     JsInteger(-1), JsFraction(1), JsNaN, JsInfinity, JsString(<<"5">>)}

NewOptions ==
    {JsUndefined, JsNull, JsBoolean(FALSE), JsBoolean(TRUE), JsInteger(0),
     JsInteger(5), JsNaN, JsString(<<>>), JsString(<<"x">>)}
    \cup {JsOptions(a, b, c, h) :
             a \in NewLimits, b \in NewLimits, c \in NewLimits,
             h \in {JsUndefined, JsString(<<"T">>)}}

\* No store has been constructed yet; asked will hold the call of the
\* constructor and cfg the limits of the store it built.
InitNew ==
    /\ now = 0
    /\ LsIdle
    /\ IxIdle
    /\ asked = <<>>

\* new MemoryCacheStore(opts), once: a constructor that throws yields no
\* store.
NewStore ==
    /\ asked = <<>>
    /\ \E opts \in NewOptions :
          /\ asked' = <<[opts |-> opts, threw |-> constructor(opts).threw]>>
          /\ cfg' = IF constructor(opts).threw THEN cfg ELSE constructor(opts).cfg
    /\ UNCHANGED <<now, lsVars, size, count, entries, tags, streams>>

NextNew == NewStore

SpecNew == InitNew /\ [][NextNew]_vars

\* ------------------------------------------------------------ claims: C21

\* The options are an object in the sense of the claim: null is none.
isOptionsObject(x) == x.t = "object" /\ x.kind # "null"

\* C21 as stated: a constructor call with options that are given and are
\* not an object, or with a limit that is defined and is not a non-negative
\* integer, throws and yields no store; every other call yields a store with
\* exactly the limits given.
C21_AsStated ==
    asked # <<>> =>
        LET opts == asked[1].opts
        IN IF opts = JsUndefined THEN ~asked[1].threw /\ cfg = Defaults
           ELSE IF ~isOptionsObject(opts) THEN asked[1].threw
           ELSE IF \E f \in {"maxCount", "maxSize", "maxEntrySize"} :
                      opts[f] # JsUndefined
                      /\ ~(opts[f].kind = "integer" /\ opts[f].n >= 0)
           THEN asked[1].threw
           ELSE /\ ~asked[1].threw
                /\ \A f \in {"maxCount", "maxSize", "maxEntrySize"} :
                      cfg[f] = IF opts[f] = JsUndefined THEN Infinity ELSE opts[f].n


\* ------------------------------------------------ index.js: routes scenario

\* new URL(path, origin).href, as the origin and what follows it: a path that
\* does not start with a slash is resolved against the root.
\* The href without what follows the pathname.
href_pathname(path, origin) ==
    [origin |-> origin, rest |-> SubSeq(path, 1, 2)]

href(path, origin) ==
    [origin |-> origin,
     rest |-> IF path = <<>> \/ Head(path) # "/" THEN <<"/">> \o path ELSE path]

\* The index of the first character of s from i on that is in stops, or
\* Len(s) + 1.
RECURSIVE indexOfAny(_, _, _)
indexOfAny(s, stops, i) ==
    IF i > Len(s) \/ s[i] \in stops THEN i ELSE indexOfAny(s, stops, i + 1)

\* new URL(url): the pathname runs to the first ? or #, the search from the
\* ? to the #, the hash from the # on.
URL(url) ==
    LET q == indexOfAny(url.rest, {"?", "#"}, 1)
        h == indexOfAny(url.rest, {"#"}, 1)
    IN Url(url.origin,
           SubSeq(url.rest, 1, q - 1),
           SubSeq(url.rest, q, h - 1),
           SubSeq(url.rest, h, Len(url.rest)))

\* getRoutes: the pair pushed for each method of each path of each origin,
\* by the route it is pushed for.
getRoutes(ents) ==
    [r \in Routes(ents) |-> [method |-> r.method, url |-> href(r.path, r.origin)]]

\* One origin, a path with and without a query, two methods; responses
\* without tags and with the tag p; a store that reads tags from the header T,
\* without a limit or with room for one entry.
RoutesPaths == {<<"/", "a">>, <<"/", "a", "?", "q">>}

RoutesKeys == {Req("o1", pa, method, Undefined) :
                  pa \in RoutesPaths, method \in ServeMethods}

RoutesVals == {Val(200, rawHeaders, Undefined, 0, 1) :
                  rawHeaders \in {<<>>, << <<"T">>, <<"p">> >>}}

RoutesOptions ==
    {Some(Options(maxCount, Undefined, Undefined, Some(<<"T">>))) :
        maxCount \in {Undefined, Some(1)}}

\* The route lists handed to deleteRoutes: for one key, or for two keys, the
\* route getRoutes gives for each, with its url parsed.
RoutesKeyLists ==
    {<<key>> : key \in RoutesKeys}
    \cup {<<k1, k2>> : k1 \in {key \in RoutesKeys : key.method = <<"G">>},
                        k2 \in RoutesKeys}

RoutesFor(keys) ==
    [i \in 1..Len(keys) |->
        [method |-> keys[i].method, url |-> URL(href(keys[i].path, keys[i].origin))]]

\* The number of responses stored when a write begins; one write at a time.
RoutesMaxEntries == 2

InitRoutes ==
    /\ now = 0
    /\ LsIdle
    /\ asked = <<>>
    /\ cfg \in {Construct(opts) : opts \in RoutesOptions}
    /\ size = 0
    /\ count = 0
    /\ entries = EmptyMap
    /\ tags = EmptyMap
    /\ streams = <<>>

RoutesCreateWriteStream ==
    /\ streams = <<>>
    /\ storedCount(entries, Routes(entries)) < RoutesMaxEntries
    /\ \E key \in RoutesKeys, val \in RoutesVals : createWriteStream(key, val)
    /\ UNCHANGED <<now, lsVars, asked>>

RoutesDelete == (\E key \in RoutesKeys : delete(key)) /\ UNCHANGED <<now, lsVars, asked>>

RoutesDeleteRoutes ==
    /\ \E keys \in RoutesKeyLists : deleteRoutes(RoutesFor(keys))
    /\ UNCHANGED <<now, lsVars, asked>>

NextRoutes ==
    \/ RoutesCreateWriteStream
    \/ ServeWrite
    \/ IxEnd
    \/ RoutesDelete
    \/ RoutesDeleteRoutes
    \/ IxDeleteByCacheTags

SpecRoutes == InitRoutes /\ [][NextRoutes]_vars


routeOf(key) == [origin |-> key.origin, path |-> key.path, method |-> key.method]

\* The (origin, path, method) routes of a list of keys.
listed(keys) == {routeOf(keys[i]) : i \in 1..Len(keys)}

\* C22: deleteRoutes(routes) removes every entry of each listed (origin, path,
\* method) route, and what is stored for a route that is not listed stays
\* stored and is found by get exactly as before.
C22_DeleteRoutes ==
    [][\A keys \in RoutesKeyLists :
          deleteRoutes(RoutesFor(keys)) /\ now' = now =>
              \A key \in RoutesKeys :
                  IF routeOf(key) \in listed(keys)
                  THEN /\ getEntries(entries', key) = Undefined
                       /\ getAt(entries', now', key) = Undefined
                  ELSE /\ getEntries(entries', key) = getEntries(entries, key)
                       /\ getAt(entries', now', key) = getAt(entries, now, key)]_vars

\* A store holding an entry of a listed route and an entry of a route of the
\* same path that is not listed.
C22_Witness ==
    /\ streams = <<>>
    /\ \E k1 \in RoutesKeys, k2 \in RoutesKeys :
          /\ k1.path = k2.path
          /\ k1.method # k2.method
          /\ getEntries(entries, k1) # Undefined
          /\ getEntries(entries, k2) # Undefined


\* The routes that hold at least one stored entry.
holding(ents) ==
    {r \in Routes(ents) : Len(ents[r.origin][r.path][r.method]) > 0}

\* C23: getRoutes returns one (method, url) pair for each (origin, path,
\* method) route that holds at least one stored entry and none for any other
\* route; the pairs of different routes differ, each naming its own route.
C23_GetRoutes ==
    /\ DOMAIN getRoutes(entries) = holding(entries)
    /\ \A key \in RoutesKeys :
          (getEntries(entries, key) # Undefined) <=> (routeOf(key) \in DOMAIN getRoutes(entries))
    /\ \A r \in DOMAIN getRoutes(entries) :
          /\ getRoutes(entries)[r].method = r.method
          /\ routeOf(RouteKey([method |-> getRoutes(entries)[r].method,
                               url |-> URL(getRoutes(entries)[r].url)])) = r
    /\ \A r1 \in DOMAIN getRoutes(entries), r2 \in DOMAIN getRoutes(entries) :
          r1 # r2 => getRoutes(entries)[r1] # getRoutes(entries)[r2]

\* Two routes of one method, with paths that differ by a query, hold an entry
\* each.
C23_Witness ==
    /\ streams = <<>>
    /\ Cardinality(DOMAIN getRoutes(entries)) = 2
    /\ \E r1 \in DOMAIN getRoutes(entries), r2 \in DOMAIN getRoutes(entries) :
          r1.path # r2.path /\ r1.method = r2.method


\* C24: in every reachable state #count is the number of entries the index
\* holds and #size the sum of their size fields.
C24_Totals ==
    /\ count = storedCount(entries, Routes(entries))
    /\ size = storedSize(entries, Routes(entries))

\* A store with room for one entry holds two entries of one byte each, in
\* two lists: the second commit ran #deleteHalf, which removed nothing.
C24_Witness ==
    /\ cfg.maxCount = 1
    /\ streams = <<>>
    /\ count = 2
    /\ size = 2


\* -------------------------------------- lock-based store: count and order

\* The number of values the lists of the given keys of one origin hold, and
\* of all origins.
RECURSIVE LS_heldUnder(_, _)
LS_heldUnder(originRoutes, keys) ==
    IF keys = {} THEN 0
    ELSE LET key == CHOOSE k \in keys : TRUE
         IN Len(originRoutes[key]) + LS_heldUnder(originRoutes, keys \ {key})

RECURSIVE LS_held(_, _)
LS_held(d, origins) ==
    IF origins = {} THEN 0
    ELSE LET origin == CHOOSE o \in origins : TRUE
         IN LS_heldUnder(d[origin], DOMAIN d[origin]) + LS_held(d, origins \ {origin})

\* C25: in every reachable state of the lock-based store #entryCount is the
\* number of entries its lists hold.
C25_AsStated == entryCount = LS_held(data, DOMAIN data)


\* C26: every createWriteStream call terminates: the positional search that
\* places the new entry ends for every list and every deleteAt.
C26_AsStated == ~hung

\* Requests without headers, with the header the stored responses vary on,
\* and with another value of it; deleteAt values from 0 on.
OrderReqs == {Req("o1", <<"a">>, <<"G">>, hs) :
                 hs \in {Undefined, Some([h |-> "x"]), Some([h |-> "y"])}}

OrderDeleteAts == {0, 1, 2}

OrderOpts == {LS_Opts(200, <<>>, vary, 0, deleteAt) :
                 vary \in LockVaries, deleteAt \in OrderDeleteAts}

InitOrder ==
    /\ InitLock
    /\ lsCfg.maxEntries = Infinity

OrderCreateWriteStream ==
    /\ \E req \in OrderReqs, opts \in OrderOpts : LS_createWriteStream(req, opts)
    /\ UNCHANGED <<asked, ixVars>>

OrderCreateReadStream ==
    /\ \E req \in OrderReqs : LS_createReadStream(req)
    /\ UNCHANGED <<asked, ixVars>>

NextOrder ==
    \/ LockTick
    \/ OrderCreateWriteStream
    \/ OrderCreateReadStream
    \/ LockEnd
    \/ LockClose

SpecOrder == InitOrder /\ [][NextOrder]_vars

\* The lists of the store, and whether a list is in descending order of
\* deleteAt.
LS_lists(d) == UNION {{d[origin][key] : key \in DOMAIN d[origin]} : origin \in DOMAIN d}

descending(h, values) ==
    \A i \in 1..Len(values), j \in 1..Len(values) :
        i < j => h[values[i]].opts.deleteAt >= h[values[j]].opts.deleteAt

\* C27: in every reachable state each list is ordered by deleteAt descending,
\* whatever deleteAt values (0 and small integers included) the entries carry.
C27_AsStated == \A values \in LS_lists(data) : descending(heap, values)

\* A committed value that is not expired, not locked, and whose vary mapping
\* is absent or satisfied by the headers of req.
servable(h, t, req, v) ==
    /\ h[v].wrote = "committed"
    /\ ~h[v].writeLock
    /\ ~h[v].readLock
    /\ t < h[v].opts.deleteAt
    /\ LS_varyTest(req, h[v].opts) = "match"

\* C28: createReadStream(req) returns a stream whenever the list of req's
\* route holds a servable entry, whatever else the list holds (expired
\* entries at its tail, entries with a vary mapping while req has no headers).
C28_AsStated ==
    \A req \in LockReqs :
        (~hung /\ \E i \in 1..Len(LS_stored(data, req)) :
                    servable(heap, now, req, LS_stored(data, req)[i]))
            => LS_readReturns(req) = "stream"

\* C29: the expiry sweep removes only entries whose deleteAt has passed: an
\* entry with deleteAt greater than the current time stays in its list
\* through every lookup and write.
C29_AsStated ==
    [][\A origin \in DOMAIN data : \A key \in DOMAIN data[origin] :
          \A i \in 1..Len(data[origin][key]) :
              LET v == data[origin][key][i]
              IN heap[v].opts.deleteAt > now =>
                    /\ origin \in DOMAIN data'
                    /\ key \in DOMAIN data'[origin]
                    /\ \E j \in 1..Len(data'[origin][key]) :
                          /\ data'[origin][key][j] = v
                          /\ heap'[v].opts = heap[v].opts]_vars


\* ------------------------------------------------- index.js: tag links

\* The route of origin o that the cache key names holds a stored entry whose
\* cacheTags contain the tag.
linked(ents, o, tag, cacheKey) ==
    \E key \in RoutesKeys :
        /\ key.origin = o
        /\ CacheKeyOf(key.path, key.method) = cacheKey
        /\ getEntries(ents, key) # Undefined
        /\ \E i \in 1..Len(getEntries(ents, key)[1]) :
              tag \in SeqToSet(getEntries(ents, key)[1][i].cacheTags)

\* C30: whenever no write stream is open, every link of the tag index (tag to
\* path:method under an origin) refers to a route that holds at least one
\* stored entry whose cacheTags contain the tag.
C30_AsStated ==
    streams = <<>> =>
        \A o \in DOMAIN tags : \A tag \in DOMAIN tags[o] :
            \A cacheKey \in tags[o][tag] : linked(entries, o, tag, cacheKey)


\* --------------------------------------- index.js: tags scenario (colon)

\* A path, and a path that ends in a colon and a method name; two methods;
\* a store that reads tags from the header T.
TagsPaths == {<<"/", "a">>, <<"/", "a", ":", "G">>}

TagsKeys == {Req("o1", pa, method, Undefined) :
                pa \in TagsPaths, method \in ServeMethods}

TagsOptions == {Some(Options(Undefined, Undefined, Undefined, Some(<<"T">>)))}

\* The number of responses stored when a write begins; one write at a time.
TagsMaxEntries == 2

InitTags ==
    /\ now = 0
    /\ LsIdle
    /\ asked = <<>>
    /\ cfg \in {Construct(opts) : opts \in TagsOptions}
    /\ size = 0
    /\ count = 0
    /\ entries = EmptyMap
    /\ tags = EmptyMap
    /\ streams = <<>>

TagsCreateWriteStream ==
    /\ streams = <<>>
    /\ storedCount(entries, Routes(entries)) < TagsMaxEntries
    /\ \E key \in TagsKeys, val \in RoutesVals : createWriteStream(key, val)
    /\ UNCHANGED <<now, lsVars, asked>>

TagsDelete == (\E key \in TagsKeys : delete(key)) /\ UNCHANGED <<now, lsVars, asked>>

NextTags ==
    \/ TagsCreateWriteStream
    \/ ServeWrite
    \/ IxEnd
    \/ TagsDelete
    \/ IxDeleteByCacheTags

SpecTags == InitTags /\ [][NextTags]_vars

\* The routes of origin o that the tag index links to one of the tags hold no
\* entry in the store st.
linkedRoutesEmpty(st, o, cacheTags, keys) ==
    \A i \in 1..Len(cacheTags) :
        o \in DOMAIN st.tags /\ cacheTags[i] \in DOMAIN st.tags[o] =>
            \A cacheKey \in st.tags[o][cacheTags[i]] :
                \A key \in keys :
                    key.origin = o /\ CacheKeyOf(key.path, key.method) = cacheKey
                        => getEntries(st.entries, key) = Undefined

\* Some tag of the list is linked to a route under origin o.
someLink(st, o, cacheTags) ==
    \E i \in 1..Len(cacheTags) :
        o \in DOMAIN st.tags /\ cacheTags[i] \in DOMAIN st.tags[o]

\* C31: deleteByCacheTags(origin, tags), called when the routes linked to the
\* tags hold no entries, changes neither the stored entries nor the totals
\* #count and #size.
C31_AsStated ==
    \A cacheTags \in IxTagLists :
        linkedRoutesEmpty(Current, "o1", cacheTags, TagsKeys) =>
            LET after == deleteByCacheTagsFrom(Current, "o1", cacheTags)
            IN /\ after.entries = entries
               /\ after.count = count
               /\ after.size = size


\* ------------------------------------------ lock-based store: read locks

\* The open read streams on the value v.
LS_readersOf(v) == {r \in 1..Len(readers) : readers[r].value = v}

\* C32: in every reachable state each entry's readers is the number of read
\* streams open on it (never negative) and its writeLock is set exactly when
\* readers > 0: the lock stays while any of several read streams is open and
\* is cleared when the last closes.
C32_ReadLock ==
    \A v \in DOMAIN heap :
        ~heap[v].free =>
            /\ heap[v].readers >= 0
            /\ heap[v].readers = Cardinality(LS_readersOf(v))
            /\ heap[v].writeLock <=> heap[v].readers > 0

\* Two read streams are open on one entry at once.
C32_Witness ==
    \E v \in DOMAIN heap :
        /\ ~heap[v].free
        /\ Cardinality(LS_readersOf(v)) = 2
        /\ heap[v].writeLock


\* ------------------------------------------------- index.js: eviction

\* The list of a route in commit order once the stream w has committed:
\* what was stored, then the stream's entry if the route is the stream's.
committedList(w, key) ==
    LET stored == IF getEntries(entries, key) = Undefined THEN <<>>
                  ELSE getEntries(entries, key)[1]
    IN IF routeOf(key) = routeOf(streams[w].key)
       THEN Append(stored, streams[w].entry) ELSE stored

\* The commit of stream w exceeds a limit.
evicts(w) ==
    \/ size + streams[w].entry.size > cfg.maxSize
    \/ count + 1 > cfg.maxCount

\* C33: when a commit triggers eviction, each list of n entries loses its
\* floor(n/2) oldest entries in commit order and keeps the others in order,
\* and the entry just committed stays, the newest of its list.
C33_OldestHalf ==
    [][\A w \in 1..Len(streams) :
          final(w) /\ now' = now /\ evicts(w) =>
              /\ \A key \in RoutesKeys :
                    LET list == committedList(w, key)
                        n == Len(list)
                    IN IF n = 0 THEN getEntries(entries', key) = Undefined
                       ELSE getEntries(entries', key)
                              = Some(SubSeq(list, (n \div 2) + 1, n))
              /\ LET kept == getEntries(entries', streams[w].key)
                 IN /\ kept # Undefined
                    /\ kept[1][Len(kept[1])] = streams[w].entry]_vars

\* A store with room for one entry holds a single entry tagged p whose
\* route the tag index no longer links to p: a second tagged commit to the
\* list evicted the first, which took the link with it.
C33_Witness ==
    /\ cfg.maxCount = 1
    /\ streams = <<>>
    /\ count = 1
    /\ \E key \in RoutesKeys :
          /\ getEntries(entries, key) # Undefined
          /\ Len(getEntries(entries, key)[1]) = 1
          /\ <<"p">> \in SeqToSet(getEntries(entries, key)[1][1].cacheTags)
          /\ ~(/\ key.origin \in DOMAIN tags
                /\ <<"p">> \in DOMAIN tags[key.origin]
                /\ CacheKeyOf(key.path, key.method) \in tags[key.origin][<<"p">>])


\* ---------------------------------- lock-based store: deletion and capacity

\* The loop of deleteRoutes over the values of one list, from index i on:
\* the route is unlinked from the tags of each value that has some.
RECURSIVE LS_unlinkValues(_, _, _, _, _, _)
LS_unlinkValues(h, tg, origin, cacheValues, cacheKey, i) ==
    IF i > Len(cacheValues) THEN tg
    ELSE LET cacheTags == h[cacheValues[i]].opts.cacheTags
         IN LS_unlinkValues(
              h,
              IF IsDefined(cacheTags) /\ Len(cacheTags[1]) > 0
              THEN LS_unlinkRouteFromCacheTag(tg, origin, cacheTags[1], cacheKey)
              ELSE tg,
              origin, cacheValues, cacheKey, i + 1)

\* The loop of deleteRoutes over the routes, from index i on, on the origin's
\* lists and the tag index.
RECURSIVE LS_deleteRoutesFrom(_, _, _, _, _, _)
LS_deleteRoutesFrom(h, originRoutes, tg, origin, routes, i) ==
    IF i > Len(routes) THEN [originRoutes |-> originRoutes, tags |-> tg]
    ELSE LET cacheKey == CacheKeyOf(routes[i].path, routes[i].method)
         IN IF cacheKey \notin DOMAIN originRoutes \/ Len(originRoutes[cacheKey]) = 0
            THEN LS_deleteRoutesFrom(h, originRoutes, tg, origin, routes, i + 1)
            ELSE LS_deleteRoutesFrom(
                   h, MapDelete(originRoutes, cacheKey),
                   LS_unlinkValues(h, tg, origin, originRoutes[cacheKey], cacheKey, 1),
                   origin, routes, i + 1)

\* deleteRoutes(origin, routes): the lists leave the origin's map; the entry
\* count stays.
LS_deleteRoutes(origin, routes) ==
    /\ ~hung
    /\ IF origin \notin DOMAIN data
       THEN UNCHANGED <<data, lsTags, heap>>
       ELSE LET d == LS_deleteRoutesFrom(heap, data[origin], lsTags, origin, routes, 1)
            IN /\ data' = MapSet(data, origin, d.originRoutes)
               /\ lsTags' = d.tags
               /\ heap' = LS_collect(heap, data', writers, readers)
    /\ UNCHANGED <<now, lsCfg, entryCount, writers, readers, hung>>

\* The loop of deleteByCacheTags over the tags, from index i on.
RECURSIVE LS_deleteTagsFrom(_, _, _, _)
LS_deleteTagsFrom(originRoutes, originTags, cacheTags, i) ==
    IF i > Len(cacheTags) THEN [originRoutes |-> originRoutes, originTags |-> originTags]
    ELSE IF cacheTags[i] \notin DOMAIN originTags
         THEN LS_deleteTagsFrom(originRoutes, originTags, cacheTags, i + 1)
         ELSE LS_deleteTagsFrom(
                [cacheKey \in (DOMAIN originRoutes) \ originTags[cacheTags[i]] |->
                    originRoutes[cacheKey]],
                MapDelete(originTags, cacheTags[i]),
                cacheTags, i + 1)

\* deleteByCacheTags(origin, cacheTags): the lists of the linked routes and
\* the tags leave the maps; the entry count stays.
LS_deleteByCacheTags(origin, cacheTags) ==
    /\ ~hung
    /\ IF origin \notin DOMAIN lsTags \/ origin \notin DOMAIN data
       THEN UNCHANGED <<data, lsTags, heap>>
       ELSE LET d == LS_deleteTagsFrom(data[origin], lsTags[origin], cacheTags, 1)
            IN /\ data' = MapSet(data, origin, d.originRoutes)
               /\ lsTags' = MapSet(lsTags, origin, d.originTags)
               /\ heap' = LS_collect(heap, data', writers, readers)
    /\ UNCHANGED <<now, lsCfg, entryCount, writers, readers, hung>>

\* Two routes of one origin, requests without headers; responses without vary,
\* untagged or tagged p; a store with room for one or two entries that reads
\* tags from the header T.
FullReqs == {Req("o1", pa, <<"G">>, Undefined) : pa \in {<<"a">>, <<"b">>}}

FullOpts == {LS_Opts(200, rawHeaders, Undefined, 0, LockMaxTime) :
                rawHeaders \in {<<>>, << <<"T">>, <<"p">> >>}}

FullConfigs ==
    {[maxEntries |-> n, maxEntrySize |-> 2, cacheTagsHeader |-> Some(<<"t">>)] :
        n \in {1, 2}}

FullRouteLists == {<<[method |-> req.method, path |-> req.path]>> : req \in FullReqs}

InitFull ==
    /\ now = 0
    /\ IxIdle
    /\ asked = <<>>
    /\ lsCfg \in FullConfigs
    /\ entryCount = 0
    /\ data = EmptyMap
    /\ lsTags = EmptyMap
    /\ heap = [v \in 1..MaxValues |-> LS_freeValue]
    /\ writers = <<>>
    /\ readers = <<>>
    /\ hung = FALSE

FullCreateWriteStream ==
    /\ \E req \in FullReqs, opts \in FullOpts : LS_createWriteStream(req, opts)
    /\ UNCHANGED <<asked, ixVars>>

FullCreateReadStream ==
    /\ \E req \in FullReqs : LS_createReadStream(req)
    /\ UNCHANGED <<asked, ixVars>>

FullDeleteByOrigin ==
    /\ \E req \in FullReqs : LS_deleteByOrigin(req.origin)
    /\ UNCHANGED <<asked, ixVars>>

FullDeleteRoutes ==
    /\ \E req \in FullReqs, routes \in FullRouteLists : LS_deleteRoutes(req.origin, routes)
    /\ UNCHANGED <<asked, ixVars>>

FullDeleteByCacheTags ==
    /\ \E req \in FullReqs, cacheTags \in IxTagLists :
          LS_deleteByCacheTags(req.origin, cacheTags)
    /\ UNCHANGED <<asked, ixVars>>

NextFull ==
    \/ LockTick
    \/ FullCreateWriteStream
    \/ FullCreateReadStream
    \/ LockEnd
    \/ LockClose
    \/ FullDeleteByOrigin
    \/ FullDeleteRoutes
    \/ FullDeleteByCacheTags

SpecFull == InitFull /\ [][NextFull]_vars


\* C34: after any sequence of writes, lookups, expiry sweeps and deletions
\* the number of entries the lists hold is at most maxEntries.
C34_AtMostMaxEntries == LS_held(data, DOMAIN data) <= lsCfg.maxEntries

\* A store with room for two entries holds two, both committed.
C34_Witness ==
    /\ lsCfg.maxEntries = 2
    /\ LS_held(data, DOMAIN data) = 2
    /\ writers = <<>>
    /\ \A req \in FullReqs : LS_writeReturns(req, CHOOSE opts \in FullOpts : TRUE) = "undefined"


\* C35: once the entries of a store (at capacity or not) have all been
\* removed by the delete operations and no stream is open, the store is not
\* full and createWriteStream returns a stream.
C35_AsStated ==
    (/\ LS_held(data, DOMAIN data) = 0
     /\ writers = <<>>
     /\ readers = <<>>)
    => /\ ~LS_isFull(entryCount)
       /\ \A req \in FullReqs, opts \in FullOpts : LS_writeReturns(req, opts) = "stream"


\* C36: a createWriteStream call that returns undefined (store full, or the
\* matching entry locked) adds nothing: the lists and the tag index are
\* afterwards what they were.
C36_AsStated ==
    [][\A req \in FullReqs, opts \in FullOpts :
          (/\ LS_writeReturns(req, opts) = "undefined"
           /\ LS_createWriteStream(req, opts)
           /\ UNCHANGED <<asked, ixVars>>)
          => /\ data' = data
             /\ lsTags' = lsTags]_vars


\* ------------------------------------------ both stores: whole bodies

\* One route and requests without headers, responses without vary, bodies
\* written as one-byte string chunks under a cap of three bytes. asked holds
\* what the callers have done: the chunks handed to each open write stream
\* (open, in the order of the streams) and the bodies, as buffers, of the
\* streams that have ended under the cap (done).
BodyReqs == {Req("o1", <<"a">>, <<"G">>, Undefined)}

BodyOpts == {LS_Opts(200, <<>>, Undefined, 0, LockMaxTime)}

BodyChunks == {Chunk(1, 1, TRUE)}

BodyConfigs == {[maxEntries |-> Infinity, maxEntrySize |-> 3, cacheTagsHeader |-> Undefined]}

BodyVals == {Val(200, <<>>, Undefined, 0, IxMaxTime)}

BodyOptions == {Some(Options(Undefined, Undefined, Some(3), Undefined))}

\* Entries of the index.js store at once, stored or still being written.
BodyMaxEntries == 2

RECURSIVE bytesWritten(_)
bytesWritten(chunks) ==
    IF chunks = <<>> THEN 0
    ELSE byteLength(toBuffer(Head(chunks))) + bytesWritten(Tail(chunks))

NoneAsked == [open |-> <<>>, done |-> {}]

\* The caller ends write stream w: its chunks are a whole body if they stay
\* under the cap.
endedWith(w, cap) ==
    [open |-> RemoveAt(asked.open, w),
     done |-> IF bytesWritten(asked.open[w]) < cap
              THEN asked.done \cup {buffersOf(asked.open[w])}
              ELSE asked.done]

InitBody ==
    /\ now = 0
    /\ asked = NoneAsked
    /\ \/ /\ IxIdle
          /\ lsCfg \in BodyConfigs
          /\ entryCount = 0
          /\ data = EmptyMap
          /\ lsTags = EmptyMap
          /\ heap = [v \in 1..MaxValues |-> LS_freeValue]
          /\ writers = <<>>
          /\ readers = <<>>
          /\ hung = FALSE
       \/ /\ LsIdle
          /\ cfg \in {Construct(opts) : opts \in BodyOptions}
          /\ size = 0
          /\ count = 0
          /\ entries = EmptyMap
          /\ tags = EmptyMap
          /\ streams = <<>>

BodyCreateWriteStream ==
    /\ lsCfg \in BodyConfigs
    /\ \E req \in BodyReqs, opts \in BodyOpts :
          /\ LS_createWriteStream(req, opts)
          /\ asked' = IF Len(writers') > Len(writers)
                      THEN [asked EXCEPT !.open = Append(@, <<>>)]
                      ELSE asked
    /\ UNCHANGED ixVars

BodyWrite ==
    /\ lsCfg \in BodyConfigs
    /\ \E w \in 1..Len(writers), chunk \in BodyChunks :
          /\ writers[w].currentSize < lsCfg.maxEntrySize
          /\ LS_write(w, chunk)
          /\ asked' = [asked EXCEPT !.open[w] = Append(@, chunk)]
    /\ UNCHANGED ixVars

BodyEnd ==
    /\ lsCfg \in BodyConfigs
    /\ \E w \in 1..Len(writers) :
          /\ LS_final(w)
          /\ asked' = endedWith(w, lsCfg.maxEntrySize)
    /\ UNCHANGED ixVars

BodyCreateReadStream ==
    /\ lsCfg \in BodyConfigs
    /\ \E req \in BodyReqs : LS_createReadStream(req)
    /\ UNCHANGED <<asked, ixVars>>

BodyRead ==
    /\ lsCfg \in BodyConfigs
    /\ \E r \in 1..Len(readers) : LS_read(r, 1)
    /\ UNCHANGED <<asked, ixVars>>

BodyClose == lsCfg \in BodyConfigs /\ LockClose

BodyTick == Tick(LockMaxTime) /\ UNCHANGED asked

BodyDeleteByOrigin ==
    /\ lsCfg \in BodyConfigs
    /\ entryCount < TripMaxCounted
    /\ \E req \in BodyReqs : LS_deleteByOrigin(req.origin)
    /\ UNCHANGED <<asked, ixVars>>

BodyIxCreateWriteStream ==
    /\ lsCfg \notin BodyConfigs
    /\ storedCount(entries, Routes(entries)) + Len(streams) < BodyMaxEntries
    /\ \E key \in BodyReqs, val \in BodyVals : createWriteStream(key, val)
    /\ asked' = [asked EXCEPT !.open = Append(@, <<>>)]
    /\ UNCHANGED <<now, lsVars>>

\* A write that destroys the stream ends the caller's dealings with it.
BodyIxWrite ==
    /\ lsCfg \notin BodyConfigs
    /\ \E w \in 1..Len(streams), chunk \in BodyChunks :
          /\ write(w, chunk)
          /\ asked' = IF Len(streams') < Len(streams)
                      THEN [asked EXCEPT !.open = RemoveAt(@, w)]
                      ELSE [asked EXCEPT !.open[w] = Append(@, chunk)]
    /\ UNCHANGED <<now, lsVars>>

BodyIxEnd ==
    /\ lsCfg \notin BodyConfigs
    /\ \E w \in 1..Len(streams) :
          /\ final(w)
          /\ asked' = endedWith(w, cfg.maxEntrySize)
    /\ UNCHANGED <<now, lsVars>>

BodyIxDelete ==
    /\ lsCfg \notin BodyConfigs
    /\ \E key \in BodyReqs : delete(key)
    /\ UNCHANGED <<now, lsVars, asked>>

NextBody ==
    \/ BodyTick
    \/ BodyCreateWriteStream
    \/ BodyWrite
    \/ BodyEnd
    \/ BodyCreateReadStream
    \/ BodyRead
    \/ BodyClose
    \/ BodyDeleteByOrigin
    \/ BodyIxCreateWriteStream
    \/ BodyIxWrite
    \/ BodyIxEnd
    \/ BodyIxDelete

SpecBody == InitBody /\ [][NextBody]_vars

=============================================================================
